---- MODULE Spec2Model ----
(***************************************************************************)
(* Model of the chart-data service of analisis-al-instante-api:            *)
(*   services/file_processing.py  file_storage, process_file               *)
(*   services/chart_data.py       ChartDataService.get_chart_data and the  *)
(*                                _generate_*_data builders                *)
(*   services/ai_analysis.py      analysis_cache, analyze_data             *)
(*   main.py                      POST /upload, POST /chart-data,          *)
(*                                POST /analyze/{file_id}                  *)
(* A DataFrame is a record of its column names and its rows; a cell is     *)
(* <<>> (NaN / None) or <<v>>.  Numbers computed by the builders are exact *)
(* rationals <<n, d>> in lowest terms, d > 0.                              *)
(***************************************************************************)
EXTENDS Integers, Sequences, FiniteSets, TLC

VARIABLES file_storage, analysis_cache, req, resp

vars == <<file_storage, analysis_cache, req, resp>>

(* ---------------------------------------------------------------------- *)
(* Bounds of the model                                                     *)
(* ---------------------------------------------------------------------- *)
MaxRows == 2

MaxBins == 3

(* ---------------------------------------------------------------------- *)
(* Cells, rationals, small helpers                                         *)
(* ---------------------------------------------------------------------- *)
NA == <<>>

notna(c) == c # NA

None == "<None>"

Range(s) == {s[i] : i \in 1..Len(s)}

RECURSIVE SumSeq(_)
SumSeq(s) == IF s = <<>> THEN 0 ELSE s[1] + SumSeq(Tail(s))

Abs(n) == IF n < 0 THEN -n ELSE n

RECURSIVE Gcd(_, _)
Gcd(a, b) == IF b = 0 THEN a ELSE Gcd(b, a % b)

\* the rational n/d (d # 0) in lowest terms with a positive denominator
Q(n, d) ==
    LET g == Gcd(Abs(n), Abs(d))
        s == IF d < 0 THEN -1 ELSE 1
    IN  <<(s * n) \div g, (s * d) \div g>>

QInt(n) == <<n, 1>>

QAdd(a, b) == Q(a[1] * b[2] + b[1] * a[2], a[2] * b[2])

QLe(a, b) == a[1] * b[2] <= b[1] * a[2]

QLt(a, b) == a[1] * b[2] < b[1] * a[2]

\* lexicographic order of the category labels used in the datasets
Labels == <<"a", "b", "east", "west">>

Rank(s) == CHOOSE i \in 1..Len(Labels) : Labels[i] = s

\* the members of a finite set of labels as an ascending sequence
RECURSIVE SortedSeq(_)
SortedSeq(S) ==
    IF S = {} THEN <<>>
    ELSE LET m == CHOOSE x \in S : \A y \in S : Rank(x) <= Rank(y)
         IN  <<m>> \o SortedSeq(S \ {m})

(* ---------------------------------------------------------------------- *)
(* float64 arithmetic (IEEE 754 binary64, round half to even)              *)
(* ---------------------------------------------------------------------- *)
\* Natural numbers of any size: little-endian sequences of limbs below Base
\* with no zero limb at the top; <<>> is 0.
Base == 16384

LimbBits == 14

\* the bits of a float64 significand
Mantissa == 53

RECURSIVE Pow2Int(_)
Pow2Int(k) == IF k = 0 THEN 1 ELSE 2 * Pow2Int(k - 1)

RECURSIVE BigNorm(_)
BigNorm(a) ==
    IF a # <<>> /\ a[Len(a)] = 0 THEN BigNorm(SubSeq(a, 1, Len(a) - 1)) ELSE a

Limb(a, i) == IF i <= Len(a) THEN a[i] ELSE 0

RECURSIVE BigAddFrom(_, _, _, _)
BigAddFrom(a, b, i, carry) ==
    IF i > Len(a) /\ i > Len(b)
    THEN (IF carry = 0 THEN <<>> ELSE <<carry>>)
    ELSE <<(Limb(a, i) + Limb(b, i) + carry) % Base>>
         \o BigAddFrom(a, b, i + 1, (Limb(a, i) + Limb(b, i) + carry) \div Base)

BigAdd(a, b) == BigAddFrom(a, b, 1, 0)

\* a - b for a >= b
RECURSIVE BigSubFrom(_, _, _, _)
BigSubFrom(a, b, i, borrow) ==
    IF i > Len(a) THEN <<>>
    ELSE IF a[i] - Limb(b, i) - borrow < 0
         THEN <<a[i] - Limb(b, i) - borrow + Base>> \o BigSubFrom(a, b, i + 1, 1)
         ELSE <<a[i] - Limb(b, i) - borrow>> \o BigSubFrom(a, b, i + 1, 0)

BigSub(a, b) == BigNorm(BigSubFrom(a, b, 1, 0))

RECURSIVE BigLeFrom(_, _, _)
BigLeFrom(a, b, i) ==
    IF i = 0 THEN TRUE
    ELSE IF a[i] # b[i] THEN a[i] < b[i]
    ELSE BigLeFrom(a, b, i - 1)

BigLe(a, b) == IF Len(a) # Len(b) THEN Len(a) < Len(b) ELSE BigLeFrom(a, b, Len(a))

\* a * k for 0 <= k <= Base
RECURSIVE BigMulSmallFrom(_, _, _, _)
BigMulSmallFrom(a, k, i, carry) ==
    IF i > Len(a) THEN (IF carry = 0 THEN <<>> ELSE <<carry>>)
    ELSE <<(a[i] * k + carry) % Base>>
         \o BigMulSmallFrom(a, k, i + 1, (a[i] * k + carry) \div Base)

BigMulSmall(a, k) == BigNorm(BigMulSmallFrom(a, k, 1, 0))

RECURSIVE BigMulFrom(_, _, _)
BigMulFrom(a, b, j) ==
    IF j > Len(b) THEN <<>>
    ELSE BigAdd(BigMulSmall(a, b[j]), <<0>> \o BigMulFrom(a, b, j + 1))

BigMul(a, b) == BigNorm(BigMulFrom(a, b, 1))

\* a * 2^k
RECURSIVE BigShl(_, _)
BigShl(a, k) ==
    IF a = <<>> \/ k = 0 THEN a
    ELSE IF k >= LimbBits THEN <<0>> \o BigShl(a, k - LimbBits)
    ELSE BigMulSmall(a, Pow2Int(k))

\* the number of bits of a
BitLen(a) ==
    IF a = <<>> THEN 0
    ELSE LimbBits * (Len(a) - 1)
         + (CHOOSE n \in 1..LimbBits :
                Pow2Int(n - 1) <= a[Len(a)] /\ a[Len(a)] < Pow2Int(n))

\* a \div k for 0 < k < Base, from the top limb down
RECURSIVE BigDivSmallFrom(_, _, _, _)
BigDivSmallFrom(a, k, i, rem) ==
    IF i = 0 THEN <<>>
    ELSE BigDivSmallFrom(a, k, i - 1, (rem * Base + a[i]) % k)
         \o <<(rem * Base + a[i]) \div k>>

BigDivSmall(a, k) == BigNorm(BigDivSmallFrom(a, k, Len(a), 0))

\* Long division by limbs. The divisor d has its top limb at Base \div 2 or
\* more, so the quotient of the two top limbs of r by the top limb of d is
\* the wanted limb or at most 2 above it.
Guess(r, d) ==
    IF (Limb(r, Len(d)) + Base * Limb(r, Len(d) + 1)) \div d[Len(d)] >= Base
    THEN Base - 1
    ELSE (Limb(r, Len(d)) + Base * Limb(r, Len(d) + 1)) \div d[Len(d)]

QuotLimb(r, d) ==
    CHOOSE k \in (Guess(r, d) - 2)..Guess(r, d) :
        /\ k >= 0
        /\ BigLe(BigMulSmall(d, k), r)
        /\ ~BigLe(BigMulSmall(d, k + 1), r)

PutLimb(q, r, d, k) == [q |-> BigNorm(<<k>> \o q), r |-> BigSub(r, BigMulSmall(d, k))]

DivLimb(st, limb, d) ==
    IF st.q = <<>> /\ st.r = <<>> /\ limb = 0 THEN st
    ELSE PutLimb(st.q, BigNorm(<<limb>> \o st.r), d,
                 QuotLimb(BigNorm(<<limb>> \o st.r), d))

\* quotient and remainder by d of the limbs of n from limb i upwards
RECURSIVE BigDivFrom(_, _, _)
BigDivFrom(n, d, i) ==
    IF i > Len(n) THEN [q |-> <<>>, r |-> <<>>]
    ELSE DivLimb(BigDivFrom(n, d, i + 1), n[i], d)

Unshifted(st, k) == [q |-> st.q, r |-> BigDivSmall(st.r, k)]

Shifted(n, d, s) == Unshifted(BigDivFrom(BigShl(n, s), BigShl(d, s), 1), Pow2Int(s))

\* quotient and remainder of n by d > 0
BigDivMod(n, d) == Shifted(n, d, LimbBits * Len(d) - BitLen(d))

\* A float64 that is not negative: [m, e] stands for m * 2^e with m of
\* exactly Mantissa bits, and m = <<>> for 0.0.
FloatZero == [m |-> <<>>, e |-> 0]

\* q * 2^e for q of Mantissa bits, or of one more after a carry
Renormalized(q, e) ==
    IF BitLen(q) > Mantissa THEN [m |-> BigDivSmall(q, 2), e |-> e + 1]
    ELSE [m |-> q, e |-> e]

\* round half to even, from the quotient and the remainder of the cut
RoundedCut(cut, half, e) ==
    IF \/ ~BigLe(cut.r, half)
       \/ cut.r = half /\ cut.q[1] % 2 = 1
    THEN Renormalized(BigAdd(cut.q, <<1>>), e)
    ELSE [m |-> cut.q, e |-> e]

\* the float64 nearest to n * 2^e
Round(n, e) ==
    IF n = <<>> THEN FloatZero
    ELSE IF BitLen(n) <= Mantissa
    THEN [m |-> BigShl(n, Mantissa - BitLen(n)), e |-> e - (Mantissa - BitLen(n))]
    ELSE RoundedCut(BigDivMod(n, BigShl(<<1>>, BitLen(n) - Mantissa)),
                    BigShl(<<1>>, BitLen(n) - Mantissa - 1),
                    e + BitLen(n) - Mantissa)

\* float(n) of a whole number 0 <= n < Base * Base
FromInt(n) == Round(BigNorm(<<n % Base, n \div Base>>), 0)

MinExp(a, b) == IF a.e <= b.e THEN a.e ELSE b.e

fadd(a, b) ==
    IF a.m = <<>> THEN b
    ELSE IF b.m = <<>> THEN a
    ELSE Round(BigAdd(BigShl(a.m, a.e - MinExp(a, b)), BigShl(b.m, b.e - MinExp(a, b))),
               MinExp(a, b))

fle(a, b) ==
    IF a.m = <<>> THEN TRUE
    ELSE IF b.m = <<>> THEN FALSE
    ELSE BigLe(BigShl(a.m, a.e - MinExp(a, b)), BigShl(b.m, b.e - MinExp(a, b)))

\* a - b for a >= b
fsub(a, b) ==
    IF b.m = <<>> THEN a
    ELSE Round(BigSub(BigShl(a.m, a.e - MinExp(a, b)), BigShl(b.m, b.e - MinExp(a, b))),
               MinExp(a, b))

fmul(a, b) ==
    IF a.m = <<>> \/ b.m = <<>> THEN FloatZero
    ELSE Round(BigMul(a.m, b.m), a.e + b.e)

\* the quotient to Mantissa + 2 bits or one more, and a last bit that tells
\* whether anything is left over
Sticky(cut) == BigAdd(BigMulSmall(cut.q, 2), IF cut.r = <<>> THEN <<>> ELSE <<1>>)

fdiv(a, b) ==
    IF a.m = <<>> THEN FloatZero
    ELSE Round(Sticky(BigDivMod(BigShl(a.m, Mantissa + 2), b.m)),
               a.e - b.e - (Mantissa + 2) - 1)

\* the float64 a parser reads from the decimal numeral n / d
Decimal(n, d) == fdiv(FromInt(n), FromInt(d))

\* Negative float64 values carry a neg field beside m and e; zero and the
\* positive values do not.  The operations above take magnitudes.
IsNeg(a) == "neg" \in DOMAIN a

Mag(a) == [m |-> a.m, e |-> a.e]

Signed(neg, a) == IF neg /\ a.m # <<>> THEN [m |-> a.m, e |-> a.e, neg |-> TRUE] ELSE a

\* a <= b
sle(a, b) ==
    IF IsNeg(a) THEN IF IsNeg(b) THEN fle(Mag(b), Mag(a)) ELSE TRUE
    ELSE IF IsNeg(b) THEN FALSE ELSE fle(a, b)

\* a + b
sadd(a, b) ==
    IF IsNeg(a) = IsNeg(b) THEN Signed(IsNeg(a), fadd(Mag(a), Mag(b)))
    ELSE IF fle(Mag(b), Mag(a)) THEN Signed(IsNeg(a), fsub(Mag(a), Mag(b)))
    ELSE Signed(IsNeg(b), fsub(Mag(b), Mag(a)))

\* a * b
smul(a, b) == Signed(IsNeg(a) # IsNeg(b), fmul(Mag(a), Mag(b)))

\* a / b for b # 0
sdiv(a, b) == Signed(IsNeg(a) # IsNeg(b), fdiv(Mag(a), Mag(b)))

\* float(n) of a whole number
FromSigned(n) == IF n < 0 THEN Signed(TRUE, FromInt(-n)) ELSE FromInt(n)

(* ---------------------------------------------------------------------- *)
(* DataFrames                                                              *)
(* ---------------------------------------------------------------------- *)
SalesColumns == <<"region", "segment", "price">>

PointColumns == <<"x", "y", "size">>

SalesRows ==
    [region : {NA, <<"east">>, <<"west">>},
     segment : {<<"a">>, <<"b">>},
     price : {NA, <<1>>}]

PointRows ==
    [x : {<<1>>}, y : {NA, <<1>>}, size : {NA, <<1>>, <<2>>, <<3>>}]

\* a file whose weight column holds decimals: 0.0 and 0.49
MeasureColumns == <<"x", "y", "weight">>

MeasureRows ==
    [x : {<<1>>}, y : {<<1>>}, weight : {<<FloatZero>>, <<Decimal(49, 100)>>}]

\* the columns that hold float64 values; the other numeric columns of the
\* model hold whole numbers
Decimals == {"weight"}

RECURSIVE SeqsUpTo(_, _)
SeqsUpTo(S, n) ==
    IF n = 0 THEN {<<>>}
    ELSE LET prev == SeqsUpTo(S, n - 1)
         IN  prev \cup {Append(s, e) : s \in {p \in prev : Len(p) = n - 1}, e \in S}

\* rows of a file of one region whose prices are gains and losses
LedgerRows ==
    [region : {<<"east">>}, segment : {<<"a">>, <<"b">>}, price : {<<-1>>, <<1>>}]

\* a file of nine measures per team
SurveyColumns == <<"team", "m1", "m2", "m3", "m4", "m5", "m6", "m7", "m8", "m9">>

Measures == SubSeq(SurveyColumns, 2, Len(SurveyColumns))

\* a row of team whose measure mi holds base + i, and no m1 when gap
SurveyRow(team, base, gap) ==
    [c \in Range(SurveyColumns) |->
        IF c = "team" THEN <<team>>
        ELSE IF gap /\ c = "m1" THEN NA
        ELSE <<base + (CHOOSE i \in 1..Len(Measures) : Measures[i] = c)>>]

SurveyFrames ==
    {[columns |-> SurveyColumns, rows |-> rs] :
        rs \in {<<SurveyRow("east", 0, FALSE)>>,
                <<SurveyRow("east", 0, FALSE), SurveyRow("east", 2, FALSE)>>,
                <<SurveyRow("west", 0, TRUE), SurveyRow("east", 0, FALSE)>>}}

\* the columns whose values are numbers
Numbers == {"price", "x", "y", "size", "weight"} \cup Range(Measures)

\* the DataFrames pd.read_csv / read_excel / read_json can hand to the store
DataFrames ==
    {[columns |-> SalesColumns, rows |-> rs] : rs \in SeqsUpTo(SalesRows, MaxRows)}
    \cup
    {[columns |-> SalesColumns, rows |-> rs] : rs \in SeqsUpTo(LedgerRows, MaxRows)}
    \cup SurveyFrames
    \cup
    {[columns |-> PointColumns, rows |-> rs] : rs \in SeqsUpTo(PointRows, MaxRows)}
    \cup
    {[columns |-> MeasureColumns, rows |-> rs] : rs \in SeqsUpTo(MeasureRows, MaxRows)}

HasColumn(df, c) == c \in Range(df.columns)

\* df[c] as a sequence of cells
Column(df, c) == [i \in 1..Len(df.rows) |-> df.rows[i][c]]

\* positions (1-based) of the rows df[cols].dropna() keeps, ascending
RECURSIVE KeptFrom(_, _, _)
KeptFrom(df, cols, i) ==
    IF i > Len(df.rows) THEN <<>>
    ELSE (IF \A c \in cols : notna(df.rows[i][c]) THEN <<i>> ELSE <<>>)
         \o KeptFrom(df, cols, i + 1)

dropna(df, cols) == KeptFrom(df, cols, 1)

(* ---------------------------------------------------------------------- *)
(* Builder results                                                         *)
(* ---------------------------------------------------------------------- *)
\* a returned payload {"data": ..., "metadata": ...}
Payload(data, metadata) ==
    [ok |-> TRUE, data |-> data, metadata |-> metadata,
     error |-> <<>>, rows_read |-> TRUE]

\* an exception raised with message `words`; rows_read tells whether the
\* DataFrame had been accessed when it was raised
Raise(words, rows_read) ==
    [ok |-> FALSE, data |-> <<>>, metadata |-> <<>>,
     error |-> words, rows_read |-> rows_read]

\* the KeyError of df[c] / df[[c, ...]] naming the referenced columns df lacks
KeyError(df, cols) ==
    Raise(<<"KeyError">> \o SelectSeq(cols, LAMBDA c : ~HasColumn(df, c)), TRUE)

AllColumns(df, cols) == \A c \in Range(cols) : HasColumn(df, c)

(* ---------------------------------------------------------------------- *)
(* Reducers of groupby(...).agg / pivot_table(aggfunc=...)                 *)
(* ---------------------------------------------------------------------- *)
\* the non-null numbers of a sequence of cells, in order
RECURSIVE Values(_)
Values(cells) ==
    IF cells = <<>> THEN <<>>
    ELSE (IF notna(cells[1]) THEN <<cells[1][1]>> ELSE <<>>) \o Values(Tail(cells))

MinOf(vs) == CHOOSE m \in Range(vs) : \A v \in Range(vs) : m <= v

MaxOf(vs) == CHOOSE m \in Range(vs) : \A v \in Range(vs) : v <= m

Reducers == {"count", "sum", "mean", "min", "max"}

\* Reduce with count taken as the size of the group, nulls included
Reduce_size(aggfunc, cells) ==
    LET vs == Values(cells)
    IN  CASE aggfunc = "count" -> <<QInt(Len(cells))>>
          [] aggfunc = "sum"   -> <<QInt(SumSeq(vs))>>
          [] aggfunc = "mean"  -> IF vs = <<>> THEN NA ELSE <<Q(SumSeq(vs), Len(vs))>>
          [] aggfunc = "min"   -> IF vs = <<>> THEN NA ELSE <<QInt(MinOf(vs))>>
          [] aggfunc = "max"   -> IF vs = <<>> THEN NA ELSE <<QInt(MaxOf(vs))>>

\* the reduced cell: <<q>>, or NA where pandas yields NaN
Reduce(aggfunc, cells) ==
    LET vs == Values(cells)
    IN  CASE aggfunc = "count" -> <<QInt(Len(vs))>>
          [] aggfunc = "sum"   -> <<QInt(SumSeq(vs))>>
          [] aggfunc = "mean"  -> IF vs = <<>> THEN NA ELSE <<Q(SumSeq(vs), Len(vs))>>
          [] aggfunc = "min"   -> IF vs = <<>> THEN NA ELSE <<QInt(MinOf(vs))>>
          [] aggfunc = "max"   -> IF vs = <<>> THEN NA ELSE <<QInt(MaxOf(vs))>>

\* the cells of column c in the rows whose column k holds key
GroupCells(df, k, key, c) ==
    LET pos == SelectSeq([i \in 1..Len(df.rows) |-> i],
                         LAMBDA i : df.rows[i][k] = <<key>>)
    IN  [j \in 1..Len(pos) |-> df.rows[pos[j]][c]]

\* GroupKeys in the order in which the keys first appear (sort=False)
GroupKeys_unsorted(df, k) ==
    LET firsts == SelectSeq([i \in 1..Len(df.rows) |-> i],
                            LAMBDA i : /\ notna(df.rows[i][k])
                                       /\ \A j \in 1..(i - 1) : df.rows[j][k] # df.rows[i][k])
    IN  [i \in 1..Len(firsts) |-> df.rows[firsts[i]][k][1]]

\* groupby(k) keys: the distinct non-null values, sorted (dropna, sort defaults)
GroupKeys(df, k) ==
    SortedSeq({df.rows[i][k][1] : i \in {j \in 1..Len(df.rows) : notna(df.rows[j][k])}})

(* ---------------------------------------------------------------------- *)
(* _generate_waterfall_data                                                *)
(* ---------------------------------------------------------------------- *)
\* a loop that takes the rows of data from the last to the first
RECURSIVE WaterfallLoop_reversed(_, _, _, _, _)
WaterfallLoop_reversed(df, category_col, value_col, kept, st) ==
    IF kept = <<>> THEN st
    ELSE LET row == df.rows[kept[Len(kept)]]
             value == row[value_col][1]
             rec == [category |-> row[category_col][1],
                     value |-> value,
                     cumulative |-> st.cumulative + value,
                     start |-> st.cumulative,
                     end |-> st.cumulative + value]
         IN  WaterfallLoop_reversed(df, category_col, value_col,
                                    SubSeq(kept, 1, Len(kept) - 1),
                                    [chart_data |-> Append(st.chart_data, rec),
                                     cumulative |-> st.cumulative + value])

\* WaterfallLoop with `cumulative = value` in place of `cumulative += value`
RECURSIVE WaterfallLoop_assign(_, _, _, _, _)
WaterfallLoop_assign(df, category_col, value_col, kept, st) ==
    IF kept = <<>> THEN st
    ELSE LET row == df.rows[kept[1]]
             value == row[value_col][1]
             rec == [category |-> row[category_col][1],
                     value |-> value,
                     cumulative |-> st.cumulative + value,
                     start |-> st.cumulative,
                     end |-> st.cumulative + value]
         IN  WaterfallLoop_assign(df, category_col, value_col, Tail(kept),
                                  [chart_data |-> Append(st.chart_data, rec),
                                   cumulative |-> value])

\* the loop over data.iterrows(): st holds chart_data and cumulative
RECURSIVE WaterfallLoop(_, _, _, _, _)
WaterfallLoop(df, category_col, value_col, kept, st) ==
    IF kept = <<>> THEN st
    ELSE LET row == df.rows[kept[1]]
             value == row[value_col][1]
             rec == [category |-> row[category_col][1],
                     value |-> value,
                     cumulative |-> st.cumulative + value,
                     start |-> st.cumulative,
                     end |-> st.cumulative + value]
         IN  WaterfallLoop(df, category_col, value_col, Tail(kept),
                           [chart_data |-> Append(st.chart_data, rec),
                            cumulative |-> st.cumulative + value])

generate_waterfall_data(df, params) ==
    LET category_col == params.x_axis
        value_col == params.y_axis
    IN  IF category_col = None \/ value_col = None
        THEN Raise(<<"Both", "x_axis", "and", "y_axis", "are", "required", "for",
                     "waterfall", "charts">>, FALSE)
        ELSE IF ~AllColumns(df, <<category_col, value_col>>)
        THEN KeyError(df, <<category_col, value_col>>)
        ELSE LET kept == dropna(df, {category_col, value_col})
                 st == WaterfallLoop(df, category_col, value_col, kept,
                                     [chart_data |-> <<>>, cumulative |-> 0])
             IN  Payload(st.chart_data,
                         [category_column |-> category_col,
                          value_column |-> value_col,
                          total_change |-> st.cumulative,
                          total_steps |-> Len(st.chart_data)])

(* ---------------------------------------------------------------------- *)
(* _generate_histogram_data                                                *)
(* ---------------------------------------------------------------------- *)
DefaultBins == 20

\* f"{e:.2f}": the hundredths nearest to the rational e, ties to even
Fmt2(e) ==
    LET n == 100 * e[1]
        d == e[2]
        fl == n \div d
        r2 == 2 * (n - fl * d)
    IN  IF r2 < d THEN fl
        ELSE IF r2 > d THEN fl + 1
        ELSE IF fl % 2 = 0 THEN fl ELSE fl + 1

\* the (first, last) edge np.histogram gives bins over vs, doubled to stay
\* integral: (0, 1) for no data, (v - 0.5, v + 0.5) for a single value v
HistRange2(vs) ==
    IF vs = <<>> THEN <<0, 2>>
    ELSE IF MinOf(vs) = MaxOf(vs) THEN <<2 * MinOf(vs) - 1, 2 * MaxOf(vs) + 1>>
    ELSE <<2 * MinOf(vs), 2 * MaxOf(vs)>>

\* bin_edges: bins + 1 evenly spaced rationals from first to last
bin_edges(vs, bins) ==
    LET r == HistRange2(vs)
    IN  [i \in 1..(bins + 1) |-> Q(bins * r[1] + (i - 1) * (r[2] - r[1]), 2 * bins)]

\* hist with every bin open on the right, the last one too
hist_half_open(vs, bins) ==
    LET e == bin_edges(vs, bins)
        In(v, i) == QLe(e[i], QInt(v)) /\ QLt(QInt(v), e[i + 1])
    IN  [i \in 1..bins |-> Cardinality({j \in 1..Len(vs) : In(vs[j], i)})]

\* hist: edges[i] <= v < edges[i+1], the last bin closed on the right
hist(vs, bins) ==
    LET e == bin_edges(vs, bins)
        In(v, i) == /\ QLe(e[i], QInt(v))
                    /\ IF i = bins THEN QLe(QInt(v), e[i + 1])
                                   ELSE QLt(QInt(v), e[i + 1])
    IN  [i \in 1..bins |-> Cardinality({j \in 1..Len(vs) : In(vs[j], i)})]

generate_histogram_data(df, params) ==
    LET x_col == params.x_axis
        bins == IF params.bins = NA \/ params.bins = <<0>>
                THEN DefaultBins ELSE params.bins[1]
    IN  IF x_col = None
        THEN Raise(<<"x_axis", "is", "required", "for", "histograms">>, FALSE)
        ELSE IF ~HasColumn(df, x_col) THEN KeyError(df, <<x_col>>)
        ELSE IF bins < 1
        THEN Raise(<<"bins", "must", "be", "positive,", "when", "an", "integer">>,
                   TRUE)
        ELSE LET data == Values(Column(df, x_col))
                 h == hist(data, bins)
                 e == bin_edges(data, bins)
                 chart_data == [i \in 1..bins |->
                                   [bin |-> <<Fmt2(e[i]), Fmt2(e[i + 1])>>,
                                    count |-> h[i]]]
             IN  Payload(chart_data,
                         [column |-> x_col,
                          bins |-> bins,
                          total_values |-> Len(data),
                          min_value |-> IF data = <<>> THEN NA ELSE <<MinOf(data)>>,
                          max_value |-> IF data = <<>> THEN NA ELSE <<MaxOf(data)>>])

(* ---------------------------------------------------------------------- *)
(* _generate_bar_data                                                      *)
(* ---------------------------------------------------------------------- *)
\* the first positions of the distinct non-null values of column c, ascending
FirstSeen(df, c) ==
    SelectSeq([i \in 1..Len(df.rows) |-> i],
              LAMBDA i : /\ notna(df.rows[i][c])
                         /\ \A j \in 1..(i - 1) : df.rows[j][c] # df.rows[i][c])

\* CountOf that counts every row holding a value
CountOf_any(df, c, v) == Cardinality({i \in 1..Len(df.rows) : notna(df.rows[i][c])})

CountOf(df, c, v) == Cardinality({i \in 1..Len(df.rows) : df.rows[i][c] = <<v>>})

\* insert value v into a sequence ordered by descending count, after its ties
RECURSIVE InsertByCount(_, _, _, _)
InsertByCount(df, c, s, v) ==
    IF s = <<>> THEN <<v>>
    ELSE IF CountOf(df, c, s[1]) >= CountOf(df, c, v)
         THEN <<s[1]>> \o InsertByCount(df, c, Tail(s), v)
         ELSE <<v>> \o s

RECURSIVE CountSorted(_, _, _)
CountSorted(df, c, firsts) ==
    IF firsts = <<>> THEN <<>>
    ELSE InsertByCount(df, c,
                       CountSorted(df, c, SubSeq(firsts, 1, Len(firsts) - 1)),
                       df.rows[firsts[Len(firsts)]][c][1])

\* df[c].value_counts(): the distinct non-null values by descending count,
\* equal counts in order of first appearance, each with its count
value_counts(df, c) ==
    LET keys == CountSorted(df, c, FirstSeen(df, c))
    IN  [i \in 1..Len(keys) |-> <<keys[i], CountOf(df, c, keys[i])>>]

generate_bar_data(df, params) ==
    LET x_col == params.x_axis
        y_col == params.y_axis
        agg_func == IF params.aggregation = None THEN "count" ELSE params.aggregation
    IN  IF x_col = None
        THEN Raise(<<"x_axis", "is", "required", "for", "bar", "charts">>, FALSE)
        ELSE IF ~HasColumn(df, x_col) THEN KeyError(df, <<x_col>>)
        ELSE IF y_col # None
        THEN IF ~HasColumn(df, y_col) THEN KeyError(df, <<y_col>>)
             ELSE IF agg_func \notin Reducers
             THEN Raise(<<"AttributeError", agg_func>>, TRUE)
             ELSE LET keys == GroupKeys(df, x_col)
                      data == [i \in 1..Len(keys) |->
                                 (x_col :> keys[i]) @@
                                 (y_col :> Reduce(agg_func,
                                                  GroupCells(df, x_col, keys[i], y_col)))]
                  IN  Payload(data,
                              [x_column |-> x_col, y_column |-> y_col,
                               aggregation |-> agg_func, total_points |-> Len(data)])
        ELSE LET vc == value_counts(df, x_col)
                 data == [i \in 1..Len(vc) |->
                            (x_col :> vc[i][1]) @@ ("count" :> vc[i][2])]
             IN  Payload(data,
                         [x_column |-> x_col, y_column |-> "count",
                          aggregation |-> agg_func, total_points |-> Len(data)])

(* ---------------------------------------------------------------------- *)
(* df.pivot_table(values, index, columns, aggfunc, fill_value=0)           *)
(* ---------------------------------------------------------------------- *)
\* the cells of column c in the rows keyed (r, s) by the columns index, columns
PairCells(df, index, columns, r, s, c) ==
    LET pos == SelectSeq([i \in 1..Len(df.rows) |-> i],
                         LAMBDA i : /\ df.rows[i][index] = <<r>>
                                    /\ df.rows[i][columns] = <<s>>)
    IN  [j \in 1..Len(pos) |-> df.rows[pos[j]][c]]

\* groupby([index, columns]) keys: the pairs of non-null keys that occur
PairKeys(df, index, columns) ==
    {<<df.rows[i][index][1], df.rows[i][columns][1]>> :
        i \in {j \in 1..Len(df.rows) :
                  notna(df.rows[j][index]) /\ notna(df.rows[j][columns])}}

\* values = None, aggfunc = "size": the number of rows of each pair
pivot_size(df, index, columns) ==
    LET pairs == PairKeys(df, index, columns)
        rs == SortedSeq({p[1] : p \in pairs})
        ss == SortedSeq({p[2] : p \in pairs})
    IN  [index |-> rs, columns |-> ss,
         cell |-> [p \in Range(rs) \X Range(ss) |->
                     QInt(Len(PairCells(df, index, columns, p[1], p[2], index)))]]

\* agged = groupby(keys).agg(aggfunc); agged.dropna(how="all") drops the pairs
\* that reduce to NaN; unstack, sort the series, fill what is missing with 0
\* unstack that keeps the pairs reduced to NaN and fills them with 0
unstack_keep(agged) ==
    LET pairs == DOMAIN agged
        rs == SortedSeq({p[1] : p \in pairs})
        ss == SortedSeq({p[2] : p \in pairs})
    IN  [index |-> rs, columns |-> ss,
         cell |-> [p \in Range(rs) \X Range(ss) |->
                     IF p \in pairs /\ notna(agged[p]) THEN agged[p][1] ELSE QInt(0)]]

unstack(agged) ==
    LET pairs == {p \in DOMAIN agged : notna(agged[p])}
        rs == SortedSeq({p[1] : p \in pairs})
        ss == SortedSeq({p[2] : p \in pairs})
    IN  [index |-> rs, columns |-> ss,
         cell |-> [p \in Range(rs) \X Range(ss) |->
                     IF p \in pairs THEN agged[p][1] ELSE QInt(0)]]

pivot_table(df, values, index, columns, aggfunc) ==
    unstack([p \in PairKeys(df, index, columns) |->
                Reduce(aggfunc, PairCells(df, index, columns, p[1], p[2], values))])

(* ---------------------------------------------------------------------- *)
(* _generate_stacked_bar_data, _generate_grouped_bar_data                  *)
(* ---------------------------------------------------------------------- *)
\* a loop that starts every segment at 0
RECURSIVE StackLoop_unstacked(_, _, _, _)
StackLoop_unstacked(pivot_data, category, cols, st) ==
    IF cols = <<>> THEN st
    ELSE LET stack_value == cols[1]
             value == pivot_data.cell[<<category, stack_value>>]
         IN  StackLoop_unstacked(pivot_data, category, Tail(cols),
                       [row_data |-> st.row_data
                            @@ (<<stack_value, "_value">> :> value)
                            @@ (<<stack_value, "_start">> :> QInt(0))
                            @@ (<<stack_value, "_end">> :> value),
                        cumulative |-> QAdd(st.cumulative, value)])

\* the loop over pivot_data.columns for one category: st holds row_data
\* and cumulative
RECURSIVE StackLoop(_, _, _, _)
StackLoop(pivot_data, category, cols, st) ==
    IF cols = <<>> THEN st
    ELSE LET stack_value == cols[1]
             value == pivot_data.cell[<<category, stack_value>>]
         IN  StackLoop(pivot_data, category, Tail(cols),
                       [row_data |-> st.row_data
                            @@ (<<stack_value, "_value">> :> value)
                            @@ (<<stack_value, "_start">> :> st.cumulative)
                            @@ (<<stack_value, "_end">> :> QAdd(st.cumulative, value)),
                        cumulative |-> QAdd(st.cumulative, value)])

\* the records and metadata built from the pivot
stacked_bar_payload(pivot_data, x_col, y_col, stack_col) ==
    LET chart_data ==
           [i \in 1..Len(pivot_data.index) |->
               LET category == pivot_data.index[i]
                   st == StackLoop(pivot_data, category, pivot_data.columns,
                                   [row_data |-> (<<"category">> :> category),
                                    cumulative |-> QInt(0)])
               IN  st.row_data @@ (<<"total">> :> st.cumulative)]
    IN  Payload(chart_data,
                [x_column |-> x_col, y_column |-> y_col,
                 stack_column |-> stack_col,
                 stack_categories |-> pivot_data.columns,
                 total_categories |-> Len(pivot_data.index)])

generate_stacked_bar_data(df, params) ==
    LET x_col == params.x_axis
        y_col == params.y_axis
        stack_col == IF params.stack_by # None THEN params.stack_by ELSE params.color_by
        aggfunc == IF params.aggregation = None THEN "sum" ELSE params.aggregation
    IN  IF x_col = None \/ y_col = None \/ stack_col = None
        THEN Raise(<<"x_axis", ",", "y_axis", ",", "and", "stack_by", "are", "required", "for",
                     "stacked", "bar", "charts">>, FALSE)
        ELSE IF ~AllColumns(df, <<y_col, x_col, stack_col>>)
        THEN KeyError(df, <<y_col, x_col, stack_col>>)
        ELSE IF aggfunc \notin Reducers
        THEN Raise(<<"AttributeError", aggfunc>>, TRUE)
        ELSE stacked_bar_payload(pivot_table(df, y_col, x_col, stack_col, aggfunc),
                                 x_col, y_col, stack_col)

\* stacked_data["metadata"]["chart_subtype"] = "grouped"; an exception of
\* the stacked bar builder passes through
grouped(stacked_data) ==
    IF ~stacked_data.ok THEN stacked_data
    ELSE [stacked_data EXCEPT
             !.metadata = stacked_data.metadata @@ [chart_subtype |-> "grouped"]]

generate_grouped_bar_data(df, params) == grouped(generate_stacked_bar_data(df, params))

(* ---------------------------------------------------------------------- *)
(* _generate_area_data, _generate_stacked_area_data, _generate_line_data   *)
(* ---------------------------------------------------------------------- *)
\* insert position p into a sequence of positions ordered by column c,
\* after the positions holding an equal value
RECURSIVE InsertByColumn(_, _, _, _)
InsertByColumn(df, c, s, p) ==
    IF s = <<>> THEN <<p>>
    ELSE IF Rank(df.rows[s[1]][c][1]) <= Rank(df.rows[p][c][1])
         THEN <<s[1]>> \o InsertByColumn(df, c, Tail(s), p)
         ELSE <<p>> \o s

\* sort_values(c) of the kept positions
RECURSIVE sort_values(_, _, _)
sort_values(df, c, kept) ==
    IF kept = <<>> THEN <<>>
    ELSE InsertByColumn(df, c, sort_values(df, c, SubSeq(kept, 1, Len(kept) - 1)),
                        kept[Len(kept)])

\* to_dict("records") of the rows at positions pos restricted to cols
Records(df, cols, pos) ==
    [i \in 1..Len(pos) |-> [c \in Range(cols) |-> df.rows[pos[i]][c]]]

RECURSIVE AreaLoop(_, _, _, _)
AreaLoop(pivot_data, idx, cols, st) ==
    IF cols = <<>> THEN st
    ELSE LET col == cols[1]
             value == pivot_data.cell[<<idx, col>>]
         IN  AreaLoop(pivot_data, idx, Tail(cols),
                      [row_data |-> st.row_data
                           @@ (<<col, "_value">> :> value)
                           @@ (<<col, "_cumulative">> :> QAdd(st.cumulative, value)),
                       cumulative |-> QAdd(st.cumulative, value)])

\* the records and metadata built from the pivot
stacked_area_payload(pivot_data, x_col, y_col, stack_by) ==
    LET chart_data ==
           [i \in 1..Len(pivot_data.index) |->
               AreaLoop(pivot_data, pivot_data.index[i], pivot_data.columns,
                        [row_data |-> (<<"x">> :> pivot_data.index[i]),
                         cumulative |-> QInt(0)]).row_data]
    IN  Payload(chart_data,
                [x_column |-> x_col, y_column |-> y_col,
                 stack_column |-> stack_by,
                 total_points |-> Len(pivot_data.index),
                 chart_subtype |-> "stacked"])

generate_area_data(df, params) ==
    LET x_col == params.x_axis
        y_col == params.y_axis
        stack_by == params.stack_by
        aggfunc == IF params.aggregation = None THEN "sum" ELSE params.aggregation
    IN  IF x_col = None \/ y_col = None
        THEN Raise(<<"Both", "x_axis", "and", "y_axis", "are", "required", "for",
                     "area", "charts">>, FALSE)
        ELSE IF stack_by # None
        THEN IF ~AllColumns(df, <<y_col, x_col, stack_by>>)
             THEN KeyError(df, <<y_col, x_col, stack_by>>)
             ELSE IF aggfunc \notin Reducers
             THEN Raise(<<"AttributeError", aggfunc>>, TRUE)
             ELSE stacked_area_payload(pivot_table(df, y_col, x_col, stack_by, aggfunc),
                                       x_col, y_col, stack_by)
        ELSE IF ~AllColumns(df, <<x_col, y_col>>) THEN KeyError(df, <<x_col, y_col>>)
        ELSE LET chart_data ==
                    Records(df, <<x_col, y_col>>,
                            sort_values(df, x_col, dropna(df, {x_col, y_col})))
             IN  Payload(chart_data,
                         [x_column |-> x_col, y_column |-> y_col,
                          stack_column |-> stack_by,
                          total_points |-> Len(chart_data),
                          chart_subtype |-> "simple"])

\* area_data["metadata"]["chart_subtype"] = "stacked"; an exception of the
\* area builder passes through
stacked(area_data) ==
    IF ~area_data.ok THEN area_data
    ELSE [area_data EXCEPT !.metadata.chart_subtype = "stacked"]

generate_stacked_area_data(df, params) == stacked(generate_area_data(df, params))

generate_line_data(df, params) ==
    LET x_col == params.x_axis
        y_col == params.y_axis
    IN  IF x_col = None \/ y_col = None
        THEN Raise(<<"Both", "x_axis", "and", "y_axis", "are", "required", "for",
                     "line", "charts">>, FALSE)
        ELSE IF ~AllColumns(df, <<x_col, y_col>>) THEN KeyError(df, <<x_col, y_col>>)
        ELSE LET data == Records(df, <<x_col, y_col>>,
                                 sort_values(df, x_col, dropna(df, {x_col, y_col})))
             IN  Payload(data, [x_column |-> x_col, y_column |-> y_col,
                                total_points |-> Len(data)])

(* ---------------------------------------------------------------------- *)
(* _generate_heatmap_data                                                  *)
(* ---------------------------------------------------------------------- *)
\* the loop over the pivot's cells, and the metadata
heatmap_payload(heatmap_data, x_col, y_col, value_col) ==
    LET ny == Len(heatmap_data.index)
        nx == Len(heatmap_data.columns)
        chart_data ==
           [k \in 1..(ny * nx) |->
               LET y_idx == (k - 1) \div nx
                   x_idx == (k - 1) % nx
                   x_val == heatmap_data.columns[x_idx + 1]
                   y_val == heatmap_data.index[y_idx + 1]
               IN  [x |-> x_val, y |-> y_val,
                    value |-> heatmap_data.cell[<<y_val, x_val>>],
                    x_index |-> x_idx, y_index |-> y_idx]]
        cells == {heatmap_data.cell[p] : p \in DOMAIN heatmap_data.cell}
    IN  Payload(chart_data,
                [x_column |-> x_col, y_column |-> y_col,
                 value_column |-> value_col,
                 x_categories |-> heatmap_data.columns,
                 y_categories |-> heatmap_data.index,
                 min_value |-> IF cells = {} THEN NA
                               ELSE <<CHOOSE m \in cells :
                                        \A c \in cells : QLe(m, c)>>,
                 max_value |-> IF cells = {} THEN NA
                               ELSE <<CHOOSE m \in cells :
                                        \A c \in cells : QLe(c, m)>>])

generate_heatmap_data(df, params) ==
    LET x_col == params.x_axis
        y_col == params.y_axis
        value_col == IF params.z_axis # None THEN params.z_axis ELSE params.color_by
        aggfunc == IF params.aggregation = None THEN "mean" ELSE params.aggregation
        needed == IF value_col # None THEN <<value_col, y_col, x_col>>
                                       ELSE <<y_col, x_col>>
    IN  IF x_col = None \/ y_col = None
        THEN Raise(<<"Both", "x_axis", "and", "y_axis", "are", "required", "for",
                     "heatmaps">>, FALSE)
        ELSE IF ~AllColumns(df, needed) THEN KeyError(df, needed)
        ELSE IF value_col # None /\ aggfunc \notin Reducers
        THEN Raise(<<"AttributeError", aggfunc>>, TRUE)
        ELSE heatmap_payload(IF value_col # None
                             THEN pivot_table(df, value_col, y_col, x_col, aggfunc)
                             ELSE pivot_size(df, y_col, x_col),
                             x_col, y_col, value_col)

(* ---------------------------------------------------------------------- *)
(* _generate_scatter_data, _generate_bubble_data                           *)
(* ---------------------------------------------------------------------- *)
generate_scatter_data(df, params) ==
    LET x_col == params.x_axis
        y_col == params.y_axis
        color_col == params.color_by
        cols == <<x_col, y_col>>
                \o (IF color_col # None /\ HasColumn(df, color_col)
                    THEN <<color_col>> ELSE <<>>)
    IN  IF x_col = None \/ y_col = None
        THEN Raise(<<"Both", "x_axis", "and", "y_axis", "are", "required", "for",
                     "scatter", "plots">>, FALSE)
        ELSE IF ~AllColumns(df, cols) THEN KeyError(df, cols)
        ELSE LET data == Records(df, cols, dropna(df, Range(cols)))
             IN  Payload(data, [x_column |-> x_col, y_column |-> y_col,
                                color_column |-> color_col,
                                total_points |-> Len(data)])

SizeFloor == 10

SizeSpan == 40

ConstantSize == 25

\* the value v of column c as a float64
float64(c, v) == IF c \in Decimals THEN v ELSE FromInt(v)

\* size_values.min(), size_values.max()
fmin(size_values) ==
    CHOOSE m \in Range(size_values) : \A v \in Range(size_values) : fle(m, v)

fmax(size_values) ==
    CHOOSE m \in Range(size_values) : \A v \in Range(size_values) : fle(v, m)

\* 10 + 40 * (v - min_size) / (max_size - min_size)
Normalized(v, min_size, max_size) ==
    fadd(FromInt(SizeFloor),
         fdiv(fmul(FromInt(SizeSpan), fsub(v, min_size)), fsub(max_size, min_size)))

\* normalized_sizes with the middle of the range for a constant column
normalized_sizes_midpoint(size_values) ==
    IF size_values # <<>> /\ ~fle(fmax(size_values), fmin(size_values))
    THEN [i \in 1..Len(size_values) |->
             Normalized(size_values[i], fmin(size_values), fmax(size_values))]
    ELSE [i \in 1..Len(size_values) |-> fdiv(FromInt(2 * SizeFloor + SizeSpan), FromInt(2))]

\* 10 + 40 * (size_values - min_size) / (max_size - min_size), one per kept
\* row, when max_size > min_size; otherwise [25] * len(size_values)
normalized_sizes(size_values) ==
    IF size_values # <<>> /\ ~fle(fmax(size_values), fmin(size_values))
    THEN [i \in 1..Len(size_values) |->
             Normalized(size_values[i], fmin(size_values), fmax(size_values))]
    ELSE [i \in 1..Len(size_values) |-> FromInt(ConstantSize)]

\* the position normalized_sizes.iloc[idx] / normalized_sizes[idx] reads for
\* the row whose index label is idx (labels count the DataFrame's rows from 0)
SizeLookup(idx) == idx + 1

\* the check without size_col: if not x_col or not y_col
bubble_required_missing_xy(params) ==
    params.x_axis = None \/ params.y_axis = None

\* if not x_col or not y_col or not size_col
bubble_required_missing(params) ==
    params.x_axis = None \/ params.y_axis = None \/ params.size_by = None

generate_bubble_data(df, params) ==
    LET x_col == params.x_axis
        y_col == params.y_axis
        size_col == params.size_by
        color_col == params.color_by
        cols == <<x_col, y_col, size_col>>
                \o (IF color_col # None /\ HasColumn(df, color_col)
                    THEN <<color_col>> ELSE <<>>)
    IN  IF bubble_required_missing(params)
        THEN Raise(<<"x_axis", ",", "y_axis", ",", "and", "size_by", "are", "required", "for",
                     "bubble", "charts">>, FALSE)
        ELSE IF ~AllColumns(df, cols) THEN KeyError(df, cols)
        ELSE LET kept == dropna(df, Range(cols))
                 size_values ==
                    [i \in 1..Len(kept) |-> float64(size_col, df.rows[kept[i]][size_col][1])]
                 sizes == normalized_sizes(size_values)
                 \* idx of data.iterrows() is the label kept[i] - 1
                 at == [i \in 1..Len(kept) |-> SizeLookup(kept[i] - 1)]
                 chart_data ==
                    [i \in 1..Len(kept) |->
                        [x |-> df.rows[kept[i]][x_col][1],
                         y |-> df.rows[kept[i]][y_col][1],
                         size |-> sizes[at[i]],
                         original_size |-> size_values[i]]
                        @@ (IF color_col # None
                            THEN [color |-> df.rows[kept[i]][color_col][1]]
                            ELSE <<>>)]
             IN  IF \E i \in 1..Len(kept) : at[i] > Len(sizes)
                 THEN Raise(<<"IndexError">>, TRUE)
                 ELSE IF kept # <<>> /\ color_col # None /\ ~HasColumn(df, color_col)
                 THEN Raise(<<"KeyError", color_col>>, TRUE)
                 ELSE Payload(chart_data,
                              [x_column |-> x_col, y_column |-> y_col,
                               size_column |-> size_col, color_column |-> color_col,
                               total_points |-> Len(chart_data),
                               size_range |->
                                  IF size_values = <<>> THEN NA
                                  ELSE <<fmin(size_values), fmax(size_values)>>])

(* ---------------------------------------------------------------------- *)
(* _generate_box_data, _generate_violin_data, _generate_density_data       *)
(* ---------------------------------------------------------------------- *)
generate_box_data(df, params) ==
    LET y_col == params.y_axis
        group_col == params.x_axis
    IN  IF y_col = None
        THEN Raise(<<"y_axis", "is", "required", "for", "box", "plots">>, FALSE)
        ELSE IF group_col # None
        THEN IF ~AllColumns(df, <<group_col, y_col>>)
             THEN KeyError(df, <<group_col, y_col>>)
             ELSE LET keys == GroupKeys(df, group_col)
                      chart_data ==
                         [i \in 1..Len(keys) |->
                             [group |-> keys[i],
                              values |-> GroupCells(df, group_col, keys[i], y_col)]]
                  IN  Payload(chart_data,
                              [y_column |-> y_col, group_column |-> group_col,
                               total_groups |-> Len(chart_data)])
        ELSE IF ~HasColumn(df, y_col) THEN KeyError(df, <<y_col>>)
        ELSE Payload(<<[group |-> y_col, values |-> Values(Column(df, y_col))]>>,
                     [y_column |-> y_col, group_column |-> group_col,
                      total_groups |-> 1])

\* one violin: the values with the bandwidth the kernel estimate is drawn with
\* (params.bandwidth or (max_val - min_val) / 20); the density curve itself
\* is not represented
Violin(group, values, bandwidth) ==
    [group |-> group, values |-> values,
     bandwidth |-> IF bandwidth # NA /\ bandwidth # <<QInt(0)>> THEN bandwidth[1]
                   ELSE Q(MaxOf(values) - MinOf(values), 20)]

generate_violin_data(df, params) ==
    LET y_col == params.y_axis
        group_col == params.x_axis
    IN  IF y_col = None
        THEN Raise(<<"y_axis", "is", "required", "for", "violin", "plots">>, FALSE)
        ELSE IF group_col # None
        THEN IF ~AllColumns(df, <<group_col, y_col>>)
             THEN KeyError(df, <<group_col, y_col>>)
             ELSE LET keys == SelectSeq(GroupKeys(df, group_col),
                              LAMBDA k : Values(GroupCells(df, group_col, k, y_col)) # <<>>)
                      chart_data ==
                         [i \in 1..Len(keys) |->
                             Violin(keys[i],
                                    Values(GroupCells(df, group_col, keys[i], y_col)),
                                    params.bandwidth)]
                  IN  IF chart_data = <<>>
                      THEN Raise(<<"UnboundLocalError", "bandwidth">>, TRUE)
                      ELSE Payload(chart_data,
                                   [y_column |-> y_col, group_column |-> group_col,
                                    total_groups |-> Len(chart_data),
                                    bandwidth |-> chart_data[Len(chart_data)].bandwidth])
        ELSE IF ~HasColumn(df, y_col) THEN KeyError(df, <<y_col>>)
        ELSE LET values == Values(Column(df, y_col))
             IN  IF values = <<>>
                 THEN Raise(<<"ValueError", "zero-size", "array">>, TRUE)
                 ELSE Payload(<<Violin(y_col, values, params.bandwidth)>>,
                              [y_column |-> y_col, group_column |-> group_col,
                               total_groups |-> 1,
                               bandwidth |->
                                  Violin(y_col, values, params.bandwidth).bandwidth])

DefaultBandwidth == <<1, 10>>

\* one density curve: the values and the bandwidth it is drawn with; the
\* curve itself is not represented
generate_density_data(df, params) ==
    LET x_col == params.x_axis
        group_col == params.color_by
        bandwidth == IF params.bandwidth # NA /\ params.bandwidth # <<QInt(0)>>
                     THEN params.bandwidth[1] ELSE DefaultBandwidth
    IN  IF x_col = None
        THEN Raise(<<"x_axis", "is", "required", "for", "density", "plots">>, FALSE)
        ELSE IF group_col # None /\ HasColumn(df, group_col)
        THEN IF ~HasColumn(df, x_col) THEN KeyError(df, <<x_col>>)
             ELSE LET firsts == FirstSeen(df, group_col)
                      keys == SelectSeq(
                                 [i \in 1..Len(firsts) |-> df.rows[firsts[i]][group_col][1]],
                                 LAMBDA k : Values(GroupCells(df, group_col, k, x_col)) # <<>>)
                      chart_data ==
                         [i \in 1..Len(keys) |->
                             [group |-> keys[i],
                              values |-> Values(GroupCells(df, group_col, keys[i], x_col)),
                              bandwidth |-> bandwidth]]
                  IN  Payload(chart_data,
                              [x_column |-> x_col, group_column |-> group_col,
                               bandwidth |-> bandwidth,
                               total_curves |-> Len(chart_data)])
        ELSE IF ~HasColumn(df, x_col) THEN KeyError(df, <<x_col>>)
        ELSE Payload(<<[group |-> x_col, values |-> Values(Column(df, x_col)),
                        bandwidth |-> bandwidth]>>,
                     [x_column |-> x_col, group_column |-> group_col,
                      bandwidth |-> bandwidth, total_curves |-> 1])

(* ---------------------------------------------------------------------- *)
(* _generate_pie_data, _generate_donut_data                                *)
(* ---------------------------------------------------------------------- *)
generate_pie_data(df, params) ==
    LET x_col == params.x_axis
    IN  IF x_col = None
        THEN Raise(<<"x_axis", "is", "required", "for", "pie", "charts">>, FALSE)
        ELSE IF ~HasColumn(df, x_col) THEN KeyError(df, <<x_col>>)
        ELSE LET data == value_counts(df, x_col)
                 chart_data == [i \in 1..Len(data) |->
                                   [label |-> data[i][1], value |-> data[i][2]]]
             IN  Payload(chart_data,
                         [column |-> x_col,
                          total_categories |-> Len(chart_data),
                          total_values |-> SumSeq([i \in 1..Len(data) |-> data[i][2]])])

\* pie_data["metadata"]["chart_subtype"] = "donut", ["inner_radius"] = 0.4;
\* an exception of the pie builder passes through
donut(pie_data) ==
    IF ~pie_data.ok THEN pie_data
    ELSE [pie_data EXCEPT
             !.metadata = pie_data.metadata
                            @@ [chart_subtype |-> "donut", inner_radius |-> Q(4, 10)]]

generate_donut_data(df, params) == donut(generate_pie_data(df, params))

(* ---------------------------------------------------------------------- *)
(* _generate_funnel_data, _generate_treemap_data, _generate_sunburst_data  *)
(* ---------------------------------------------------------------------- *)
\* float(cell) of a reduced cell: NA stands for NaN
ToFloat(cell) ==
    IF cell = NA THEN NA
    ELSE IF cell[1][2] = 1 THEN <<FromSigned(cell[1][1])>>
    ELSE <<sdiv(FromSigned(cell[1][1]), FromInt(cell[1][2]))>>

\* the reduced cells as floats, in order
RECURSIVE Floats(_)
Floats(cells) ==
    IF cells = <<>> THEN <<>> ELSE <<ToFloat(cells[1])>> \o Floats(Tail(cells))

\* Series.sum() of float cells: NaN is skipped, nothing sums to 0.0
RECURSIVE FloatSum(_)
FloatSum(cells) ==
    IF cells = <<>> THEN FloatZero
    ELSE LET rest == FloatSum(SubSeq(cells, 1, Len(cells) - 1))
             last == cells[Len(cells)]
         IN  IF last = NA THEN rest ELSE sadd(rest, last[1])

\* value / total_value * 100 if total_value > 0 else 0
Percentage(value, total_value) ==
    IF sle(total_value, FloatZero) THEN <<FloatZero>>
    ELSE IF value = NA THEN NA
    ELSE <<smul(sdiv(value[1], total_value), FromInt(100))>>

\* v sorts before w under sort_values(ascending=False): NaN goes last
Before(v, w) == v # NA /\ (w = NA \/ ~sle(v[1], w[1]))

\* insert position p into positions ordered by descending value, after the
\* positions holding an equal value
RECURSIVE InsertDescending(_, _, _)
InsertDescending(values, s, p) ==
    IF s = <<>> THEN <<p>>
    ELSE IF Before(values[p], values[s[1]])
         THEN <<p>> \o s
         ELSE <<s[1]>> \o InsertDescending(values, Tail(s), p)

\* the positions of data.sort_values(value_col, ascending=False)
RECURSIVE SortDescending(_, _)
SortDescending(values, n) ==
    IF n = 0 THEN <<>>
    ELSE InsertDescending(values, SortDescending(values, n - 1), n)

generate_funnel_data(df, params) ==
    LET stage_col == params.x_axis
        value_col == params.y_axis
        aggfunc == IF params.aggregation = None THEN "sum" ELSE params.aggregation
    IN  IF stage_col = None \/ value_col = None
        THEN Raise(<<"Both", "x_axis", "(stage)", "and", "y_axis", "(value)", "are",
                     "required", "for", "funnel", "charts">>, FALSE)
        ELSE IF ~AllColumns(df, <<stage_col, value_col>>)
        THEN KeyError(df, <<stage_col, value_col>>)
        ELSE IF aggfunc \notin Reducers
        THEN Raise(<<"AttributeError", aggfunc>>, TRUE)
        ELSE LET keys == GroupKeys(df, stage_col)
                 values == Floats([i \in 1..Len(keys) |->
                                      Reduce(aggfunc,
                                             GroupCells(df, stage_col, keys[i], value_col))])
                 pos == SortDescending(values, Len(keys))
                 total_value == FloatSum(values)
                 chart_data ==
                    [i \in 1..Len(pos) |->
                        [stage |-> keys[pos[i]],
                         value |-> values[pos[i]],
                         percentage |-> Percentage(values[pos[i]], total_value),
                         order |-> pos[i] - 1]]
             IN  Payload(chart_data,
                         [stage_column |-> stage_col, value_column |-> value_col,
                          total_stages |-> Len(chart_data),
                          total_value |-> total_value])

\* the children of one category of the hierarchical treemap, with its total
TreemapCategory(df, category_col, subcategory_col, value_col, aggfunc, category) ==
    LET subs == SortedSeq({p[2] : p \in {q \in PairKeys(df, category_col, subcategory_col) :
                                            q[1] = category}})
        values == Floats([i \in 1..Len(subs) |->
                             Reduce(aggfunc,
                                    PairCells(df, category_col, subcategory_col,
                                              category, subs[i], value_col))])
        total_value == FloatSum(values)
    IN  [name |-> category,
         value |-> total_value,
         children |-> [i \in 1..Len(subs) |->
                          [name |-> subs[i],
                           value |-> values[i],
                           percentage |-> Percentage(values[i], total_value)]]]

generate_treemap_data(df, params) ==
    LET category_col == params.x_axis
        value_col == params.y_axis
        subcategory_col == params.color_by
        aggfunc == IF params.aggregation = None THEN "sum" ELSE params.aggregation
        metadata == [category_column |-> category_col, value_column |-> value_col,
                     subcategory_column |-> subcategory_col,
                     hierarchical |-> subcategory_col # None]
    IN  IF category_col = None \/ value_col = None
        THEN Raise(<<"Both", "x_axis", "(category)", "and", "y_axis", "(value)", "are",
                     "required", "for", "treemaps">>, FALSE)
        ELSE IF ~AllColumns(df, <<category_col, value_col>>)
        THEN KeyError(df, <<category_col, value_col>>)
        ELSE IF aggfunc \notin Reducers
        THEN Raise(<<"AttributeError", aggfunc>>, TRUE)
        ELSE IF subcategory_col # None /\ HasColumn(df, subcategory_col)
        THEN LET cats == SortedSeq({p[1] : p \in PairKeys(df, category_col,
                                                          subcategory_col)})
                 chart_data ==
                    [i \in 1..Len(cats) |->
                        TreemapCategory(df, category_col, subcategory_col, value_col,
                                        aggfunc, cats[i])]
             IN  Payload(chart_data,
                         metadata @@ [total_categories |-> Len(chart_data)])
        ELSE LET keys == GroupKeys(df, category_col)
                 values == Floats([i \in 1..Len(keys) |->
                                      Reduce(aggfunc,
                                             GroupCells(df, category_col, keys[i],
                                                        value_col))])
                 total_value == FloatSum(values)
                 chart_data ==
                    [i \in 1..Len(keys) |->
                        [name |-> keys[i],
                         value |-> values[i],
                         percentage |-> Percentage(values[i], total_value)]]
             IN  Payload(chart_data,
                         metadata @@ [total_categories |-> Len(chart_data)])

generate_sunburst_data(df, params) == generate_treemap_data(df, params)

\* density_data["metadata"]["chart_subtype"] = "ridgeline"; an exception of
\* the density builder passes through
ridgeline(density_data) ==
    IF ~density_data.ok THEN density_data
    ELSE [density_data EXCEPT
             !.metadata = density_data.metadata @@ [chart_subtype |-> "ridgeline"]]

generate_ridgeline_data(df, params) == ridgeline(generate_density_data(df, params))

(* ---------------------------------------------------------------------- *)
(* _generate_radar_data                                                    *)
(* ---------------------------------------------------------------------- *)
\* df.select_dtypes(include=[np.number]).columns.tolist(): the columns of
\* numbers, in the order of the file; a file without rows has none, its
\* columns are of dtype object
select_numbers(df) ==
    IF df.rows = <<>> THEN <<>>
    ELSE SelectSeq(df.columns, LAMBDA c : c \in Numbers)

\* s[:n]
Slice(s, n) ==
    IF n >= 0 THEN SubSeq(s, 1, IF n < Len(s) THEN n ELSE Len(s))
    ELSE SubSeq(s, 1, Len(s) + n)

MaxAxes == 8

\* vs without one occurrence of v
RECURSIVE Without(_, _)
Without(vs, v) ==
    IF vs = <<>> THEN <<>>
    ELSE IF vs[1] = v THEN Tail(vs) ELSE <<vs[1]>> \o Without(Tail(vs), v)

\* Series.median() of whole numbers: the middle value, or the mean of the
\* two middle values
RECURSIVE Median(_)
Median(vs) ==
    IF Len(vs) = 1 THEN QInt(vs[1])
    ELSE IF Len(vs) = 2 THEN Q(vs[1] + vs[2], 2)
    ELSE Median(Without(Without(vs, MinOf(vs)), MaxOf(vs)))

FloatMin(vs) == CHOOSE m \in Range(vs) : \A v \in Range(vs) : sle(m, v)

FloatMax(vs) == CHOOSE m \in Range(vs) : \A v \in Range(vs) : sle(v, m)

RECURSIVE FloatMedian(_)
FloatMedian(vs) ==
    IF Len(vs) = 1 THEN vs[1]
    ELSE IF Len(vs) = 2 THEN sdiv(sadd(vs[1], vs[2]), FromInt(2))
    ELSE FloatMedian(Without(Without(vs, FloatMin(vs)), FloatMax(vs)))

\* Series.mean() / .sum() / .median() of the cells of a column, as a value
\* or NaN (NA); whole numbers reduce exactly, float64 columns in float64
SeriesReduce(reducer, col, cells) ==
    LET vs == Values(cells)
    IN  IF col \in Decimals
        THEN CASE reducer = "sum" -> <<FloatSum(cells)>>
               [] reducer = "mean" ->
                     IF vs = <<>> THEN NA
                     ELSE <<sdiv(FloatSum(cells), FromInt(Len(vs)))>>
               [] reducer = "median" -> IF vs = <<>> THEN NA ELSE <<FloatMedian(vs)>>
        ELSE CASE reducer = "sum" -> <<QInt(SumSeq(vs))>>
               [] reducer = "mean" -> IF vs = <<>> THEN NA ELSE <<Q(SumSeq(vs), Len(vs))>>
               [] reducer = "median" -> IF vs = <<>> THEN NA ELSE <<Median(vs)>>

\* the if / elif chain on params.aggregation: mean, sum, median, else mean
RadarReducer(aggregation) ==
    IF aggregation \in {"mean", "sum", "median"} THEN aggregation ELSE "mean"

\* float(value) if pd.notna(value) else 0
RadarValue(aggregation, col, cells) ==
    LET value == SeriesReduce(RadarReducer(aggregation), col, cells)
    IN  IF notna(value) THEN value[1]
        ELSE IF col \in Decimals THEN FloatZero ELSE QInt(0)

\* one series: the reduced value of every axis, in axis order
RadarSeries(df, group, rows, numeric_cols, aggregation) ==
    [group |-> group,
     values |-> [i \in 1..Len(numeric_cols) |->
                   [axis |-> numeric_cols[i],
                    value |-> RadarValue(aggregation, numeric_cols[i],
                                         [j \in 1..Len(rows) |->
                                             df.rows[rows[j]][numeric_cols[i]]])]]]

\* numeric_cols[:params.limit] if params.limit else numeric_cols[:8]
RadarAxes(numeric_cols, limit) ==
    IF limit # NA /\ limit[1] # 0 THEN Slice(numeric_cols, limit[1])
    ELSE Slice(numeric_cols, MaxAxes)

generate_radar_data(df, params) ==
    LET group_col == IF params.group_by # None THEN params.group_by ELSE params.color_by
        all_numbers == select_numbers(df)
        without_x == IF params.x_axis # None /\ params.x_axis \in Range(all_numbers)
                     THEN SelectSeq(all_numbers, LAMBDA c : c # params.x_axis)
                     ELSE all_numbers
        numeric_cols == RadarAxes(without_x, params.limit)
    IN  IF Len(without_x) < 3
        THEN Raise(<<"Radar", "charts", "require", "at", "least", "3", "numeric",
                     "columns">>, TRUE)
        ELSE LET chart_data ==
                    IF group_col # None /\ HasColumn(df, group_col)
                    THEN LET firsts == FirstSeen(df, group_col)
                         IN  [i \in 1..Len(firsts) |->
                                 RadarSeries(df, df.rows[firsts[i]][group_col][1],
                                     SelectSeq([j \in 1..Len(df.rows) |-> j],
                                               LAMBDA j : df.rows[j][group_col]
                                                            = df.rows[firsts[i]][group_col]),
                                     numeric_cols, params.aggregation)]
                    ELSE <<RadarSeries(df, "Data", [j \in 1..Len(df.rows) |-> j],
                                       numeric_cols, params.aggregation)>>
             IN  Payload(chart_data,
                         [axes |-> numeric_cols, group_column |-> group_col,
                          total_series |-> Len(chart_data),
                          aggregation |-> IF params.aggregation = None THEN "mean"
                                          ELSE params.aggregation])

(* ---------------------------------------------------------------------- *)
(* _generate_multi_line_data                                               *)
(* ---------------------------------------------------------------------- *)
\* df[df[group_col] == group_value][[x_col, y_col]].dropna().sort_values(x_col)
LinePoints(df, x_col, y_col, group_col, group_value) ==
    Records(df, <<x_col, y_col>>,
            sort_values(df, x_col,
                        SelectSeq(dropna(df, {x_col, y_col}),
                                  LAMBDA i : df.rows[i][group_col] = group_value)))

\* df[group_col].unique() in order of first appearance, NaN skipped; the
\* columns x_col and y_col are selected inside the loop only
generate_multi_line_data(df, params) ==
    LET x_col == params.x_axis
        y_col == params.y_axis
        group_col == IF params.group_by # None THEN params.group_by ELSE params.color_by
    IN  IF x_col = None \/ y_col = None \/ group_col = None
        THEN Raise(<<"x_axis,", "y_axis,", "and", "group_by", "are", "required",
                     "for", "multi-line", "charts">>, FALSE)
        ELSE IF ~HasColumn(df, group_col) THEN KeyError(df, <<group_col>>)
        ELSE IF FirstSeen(df, group_col) # <<>> /\ ~AllColumns(df, <<x_col, y_col>>)
        THEN KeyError(df, <<x_col, y_col>>)
        ELSE LET firsts == FirstSeen(df, group_col)
                 chart_data ==
                    [k \in 1..Len(firsts) |->
                        [series |-> df.rows[firsts[k]][group_col][1],
                         points |-> LinePoints(df, x_col, y_col, group_col,
                                               df.rows[firsts[k]][group_col])]]
             IN  Payload(chart_data,
                         [x_column |-> x_col, y_column |-> y_col,
                          group_column |-> group_col,
                          total_series |-> Len(chart_data)])

(* ---------------------------------------------------------------------- *)
(* Placeholder builders                                                    *)
(* ---------------------------------------------------------------------- *)
NotImplemented(chart_type, words) ==
    Payload(<<[error |-> words]>>,
            [chart_type |-> chart_type, status |-> "not_implemented"])

generate_candlestick_data(df, params) ==
    IF params.x_axis = None
    THEN Raise(<<"x_axis", "(date)", "is", "required", "for", "candlestick",
                 "charts">>, FALSE)
    ELSE NotImplemented("candlestick",
                        <<"Candlestick", "charts", "require", "OHLC", "data",
                          "structure">>)

generate_gantt_data(df, params) ==
    NotImplemented("gantt", <<"Gantt", "charts", "require", "start_date,",
                              "end_date,", "and", "task", "columns">>)

generate_sankey_data(df, params) ==
    NotImplemented("sankey", <<"Sankey", "diagrams", "require", "source,",
                               "target,", "and", "value", "columns">>)

generate_chord_data(df, params) ==
    NotImplemented("chord", <<"Chord", "diagrams", "require", "matrix", "data",
                              "structure">>)

(* ---------------------------------------------------------------------- *)
(* ChartType, ChartDataService.get_chart_data                              *)
(* ---------------------------------------------------------------------- *)
ChartType ==
    {"bar", "line", "pie", "scatter", "histogram", "box",
     "area", "donut", "violin", "heatmap", "bubble", "radar", "treemap", "sunburst",
     "density", "ridgeline", "candlestick", "waterfall",
     "gantt", "sankey", "chord", "funnel",
     "stacked_bar", "grouped_bar", "multi_line", "stacked_area"}

\* the if / elif chain: the builder's result for a member of ChartType
Dispatch(df, chart_type, parameters) ==
    CASE chart_type = "bar" -> generate_bar_data(df, parameters)
      [] chart_type = "line" -> generate_line_data(df, parameters)
      [] chart_type = "scatter" -> generate_scatter_data(df, parameters)
      [] chart_type = "histogram" -> generate_histogram_data(df, parameters)
      [] chart_type = "box" -> generate_box_data(df, parameters)
      [] chart_type = "area" -> generate_area_data(df, parameters)
      [] chart_type = "violin" -> generate_violin_data(df, parameters)
      [] chart_type = "heatmap" -> generate_heatmap_data(df, parameters)
      [] chart_type = "bubble" -> generate_bubble_data(df, parameters)
      [] chart_type = "density" -> generate_density_data(df, parameters)
      [] chart_type = "candlestick" -> generate_candlestick_data(df, parameters)
      [] chart_type = "waterfall" -> generate_waterfall_data(df, parameters)
      [] chart_type = "gantt" -> generate_gantt_data(df, parameters)
      [] chart_type = "sankey" -> generate_sankey_data(df, parameters)
      [] chart_type = "chord" -> generate_chord_data(df, parameters)
      [] chart_type = "stacked_bar" -> generate_stacked_bar_data(df, parameters)
      [] chart_type = "grouped_bar" -> generate_grouped_bar_data(df, parameters)
      [] chart_type = "stacked_area" -> generate_stacked_area_data(df, parameters)
      [] chart_type = "pie" -> generate_pie_data(df, parameters)
      [] chart_type = "donut" -> generate_donut_data(df, parameters)
      [] chart_type = "funnel" -> generate_funnel_data(df, parameters)
      [] chart_type = "treemap" -> generate_treemap_data(df, parameters)
      [] chart_type = "sunburst" -> generate_sunburst_data(df, parameters)
      [] chart_type = "ridgeline" -> generate_ridgeline_data(df, parameters)
      [] chart_type = "radar" -> generate_radar_data(df, parameters)
      [] chart_type = "multi_line" -> generate_multi_line_data(df, parameters)

\* a chain that lacks the branches of the placeholder builders
Branches_partial == ChartType \ {"gantt", "sankey", "chord"}

\* the chart types the if / elif chain compares chart_type with; any other
\* value reaches the final else
Branches ==
    {"bar", "line", "pie", "scatter", "histogram", "box", "area", "donut",
     "violin", "heatmap", "bubble", "radar", "treemap", "sunburst", "density",
     "ridgeline", "candlestick", "waterfall", "gantt", "sankey", "chord",
     "funnel", "stacked_bar", "grouped_bar", "multi_line", "stacked_area"}

ErrorPrefix == <<"Error", "generating", "chart", "data:">>

\* The outcome of one call: what it returned or raised, with the builder the
\* dispatch entered ("" when none) and whether the DataFrame's rows were read.
\* try / except Exception around the builder: its payload, or its
\* exception raised again as a ValueError with the prefix
Wrapped(r, chart_type) ==
    IF r.ok THEN r @@ [raised |-> "", builder |-> chart_type]
    ELSE Raise(ErrorPrefix \o r.error, r.rows_read)
            @@ [raised |-> "ValueError", builder |-> chart_type]

get_chart_data(storage, file_id, chart_type, parameters) ==
    IF file_id \notin DOMAIN storage
    THEN Raise(<<"File", file_id, "not", "found">>, FALSE)
            @@ [raised |-> "ValueError", builder |-> ""]
    ELSE IF chart_type \in Branches
    THEN Wrapped(Dispatch(storage[file_id], chart_type, parameters), chart_type)
    ELSE Raise(ErrorPrefix \o <<"Chart", "type", chart_type, "not", "implemented">>,
               FALSE)
            @@ [raised |-> "ValueError", builder |-> ""]

(* ---------------------------------------------------------------------- *)
(* main.py: POST /chart-data                                               *)
(* ---------------------------------------------------------------------- *)
\* request.chart_type.value.title() Chart - x_axis vs y_axis
Title(chart_type, parameters) ==
    <<chart_type, "Chart">>
    \o (IF parameters.x_axis # None THEN <<"-", parameters.x_axis>> ELSE <<>>)
    \o (IF parameters.y_axis # None THEN <<"vs", parameters.y_axis>> ELSE <<>>)

\* except ValueError: HTTPException(400, str(e)); else the ChartDataResponse
\* the handler returns (status 200; its JSON rendering is the framework's)
Response(request, chart_data) ==
    LET call == [raised |-> chart_data.raised, builder |-> chart_data.builder,
                 rows_read |-> chart_data.rows_read]
    IN  IF chart_data.raised = "ValueError"
        THEN [status |-> "400", detail |-> chart_data.error, body |-> <<>>,
              call |-> call]
        ELSE [status |-> "200", detail |-> <<>>,
              body |-> [chart_type |-> request.chart_type,
                        data |-> chart_data.data,
                        metadata |-> chart_data.metadata,
                        title |-> Title(request.chart_type, request.parameters)],
              call |-> call]

\* The HTTP response to a ChartDataRequest body: 422 when the body does not
\* validate as a ChartDataRequest, 400 for a ValueError of the service, else
\* the ChartDataResponse.
chart_data_endpoint(storage, request) ==
    IF request.chart_type \notin ChartType
    THEN [status |-> "422", detail |-> <<"chart_type", "Input", "should", "be">>,
          body |-> <<>>,
          call |-> [raised |-> "RequestValidationError", builder |-> "",
                    rows_read |-> FALSE]]
    ELSE Response(request,
                  get_chart_data(storage, request.file_id, request.chart_type,
                                 request.parameters))

\* what a caller of ChartDataService.get_chart_data itself observes: the
\* returned payload, or the exception with its message
Observed(chart_data) ==
    [status |-> "", detail |-> chart_data.error,
     body |-> IF chart_data.ok
              THEN [data |-> chart_data.data, metadata |-> chart_data.metadata]
              ELSE <<>>,
     call |-> [raised |-> chart_data.raised, builder |-> chart_data.builder,
               rows_read |-> chart_data.rows_read]]

direct_call(storage, request) ==
    Observed(get_chart_data(storage, request.file_id, request.chart_type,
                            request.parameters))

(* ---------------------------------------------------------------------- *)
(* Requests                                                                *)
(* ---------------------------------------------------------------------- *)
\* ChartParameters() with every field at its default
DefaultParameters ==
    [x_axis |-> None, y_axis |-> None, z_axis |-> None, color_by |-> None,
     size_by |-> None, aggregation |-> "sum", group_by |-> None, stack_by |-> None,
     bins |-> NA, bandwidth |-> NA, sort_by |-> None, sort_order |-> "asc",
     limit |-> NA]

Opt(c) == {None, c}

\* an aggregation string that names no reducer
Unrecognized == "bogus"

\* a column name no file holds
Absent == "ghost"

XY(xs, ys) == {[DefaultParameters EXCEPT !.x_axis = x, !.y_axis = y] : x \in xs, y \in ys}

BarParameters ==
    {[p EXCEPT !.aggregation = a] :
        p \in XY(Opt("region"), Opt("price")),
        a \in {"sum", "count", "mean", None, Unrecognized}}
    \cup
    {[DefaultParameters EXCEPT !.x_axis = "region", !.y_axis = y,
                               !.sort_by = "price", !.sort_order = o] :
        y \in Opt("price"), o \in {"asc", "desc"}}

\* price reduced by region, under the aggregations sent
ReducedParameters ==
    {[DefaultParameters EXCEPT !.x_axis = "region", !.y_axis = "price",
                               !.aggregation = a] :
        a \in {"sum", "mean", "count", None}}

\* scatter plots coloured by a column of the file or by one it lacks
ScatterParameters ==
    XY(Opt("region"), Opt("price"))
    \cup
    {[DefaultParameters EXCEPT !.x_axis = "region", !.y_axis = "price",
                               !.color_by = c] : c \in {"segment", Absent}}

HistogramParameters ==
    {[DefaultParameters EXCEPT !.x_axis = x, !.bins = b] :
        x \in Opt("size"), b \in {NA} \cup {<<n>> : n \in 0..MaxBins}}

StackParameters ==
    {[p EXCEPT !.stack_by = s] : p \in XY(Opt("region"), Opt("price")), s \in Opt("segment")}
    \cup
    {[DefaultParameters EXCEPT !.x_axis = "region", !.y_axis = "price",
                               !.stack_by = "segment", !.aggregation = a] :
        a \in {"mean", "count", "min"}}

HeatmapParameters ==
    {[p EXCEPT !.z_axis = z] : p \in XY(Opt("region"), Opt("segment")), z \in Opt("price")}
    \cup
    {[DefaultParameters EXCEPT !.x_axis = "region", !.y_axis = "segment",
                               !.z_axis = "price", !.aggregation = a] :
        a \in {"mean", "count", "max"}}

BubbleParameters ==
    {[p EXCEPT !.size_by = s] :
        p \in XY(Opt("x"), Opt("y")), s \in {None, "size", "weight"}}

\* densities of price, of the whole column or one curve per region
DensityParameters ==
    XY(Opt("price"), {None})
    \cup {[DefaultParameters EXCEPT !.x_axis = "price", !.color_by = "region"]}

\* radars of every numeric column, one series or one per team, under the
\* aggregations and the limits sent
RadarParameters ==
    {[DefaultParameters EXCEPT !.group_by = g, !.aggregation = a] :
        g \in Opt("team"), a \in {"sum", "mean", "median", "max", None}}
    \cup {[DefaultParameters EXCEPT !.x_axis = "x"]}
    \cup {[DefaultParameters EXCEPT !.x_axis = x, !.limit = <<n>>] :
            x \in Opt("m1"), n \in {-1, 2, 9}}

\* the (chart_type, parameters) pairs the callers send
Charts ==
    ({"bar"} \X BarParameters)
    \cup ({"waterfall", "line", "box", "violin"}
            \X XY(Opt("region"), Opt("price")))
    \cup ({"scatter"} \X ScatterParameters)
    \cup ({"pie", "donut"} \X XY(Opt("region"), {None}))
    \cup ({"funnel", "treemap"} \X ReducedParameters)
    \cup ({"treemap", "sunburst"} \X ScatterParameters)
    \cup ({"histogram"} \X HistogramParameters)
    \cup ({"stacked_bar", "stacked_area"} \X StackParameters)
    \cup ({"heatmap"} \X HeatmapParameters)
    \cup ({"bubble"} \X BubbleParameters)
    \cup ({"density", "ridgeline"} \X DensityParameters)
    \cup ({"radar"} \X RadarParameters)
    \cup ({"area", "grouped_bar"}
            \X {[DefaultParameters EXCEPT !.x_axis = "region", !.y_axis = "price",
                                          !.stack_by = "segment"]})
    \cup ({"multi_line"}
            \X {[p EXCEPT !.group_by = g] :
                    p \in XY(Opt("region"), {"price"}), g \in Opt("segment")})
    \cup ({"candlestick", "gantt", "sankey", "chord"}
            \X XY(Opt("region"), {None}))
    \cup ({"hologram"} \X {DefaultParameters})

FileIds == {"f1"}

\* a file id no upload ever returns
UnknownFile == "f0"

Requests ==
    {[file_id |-> "f1", chart_type |-> c[1], parameters |-> c[2]] : c \in Charts}
    \cup
    {[file_id |-> UnknownFile, chart_type |-> t,
      parameters |-> [DefaultParameters EXCEPT !.x_axis = x]] :
        t \in {"bar", "hologram"}, x \in Opt("region")}

\* the calls made on the service directly
DirectCalls ==
    {r \in Requests : r.chart_type \in {"bar", "waterfall", "hologram"}}

(* ---------------------------------------------------------------------- *)
(* State machine                                                           *)
(* ---------------------------------------------------------------------- *)
\* a handler that drops the rows of the DataFrame it works on
file_storage_emptied(storage, r) ==
    IF r.file_id \in DOMAIN storage
    THEN [storage EXCEPT ![r.file_id] = [@ EXCEPT !.rows = <<>>]]
    ELSE storage

\* file_storage when get_chart_data returns: the handler binds
\* df = file_storage[file_id] and the builders only derive new objects from
\* df (column selections, dropna(), groupby, pivot_table, sort_values without
\* inplace); nothing assigns into df or into file_storage
file_storage_after(storage, r) == storage

NoRequest == [file_id |-> "", chart_type |-> "", parameters |-> DefaultParameters,
              via |-> ""]

NoResponse == [status |-> "", detail |-> <<>>, body |-> <<>>,
               call |-> [raised |-> "", builder |-> "", rows_read |-> FALSE]]

Init ==
    /\ file_storage = <<>>
    /\ analysis_cache = <<>>
    /\ req = NoRequest
    /\ resp = NoResponse

\* an id generator that may hand out an id again
uuid4_repeating(ids, storage) == ids

\* str(uuid.uuid4()): one of the ids, never one handed out before
uuid4(ids, storage) == ids \ DOMAIN storage

\* file_storage[file_id] = df
Stored(storage, file_id, df) ==
    [f \in DOMAIN storage \cup {file_id} |-> IF f = file_id THEN df ELSE storage[f]]

\* POST /upload: process_file parses the file and stores the DataFrame under
\* a fresh uuid4
process_file(df) ==
    /\ req = NoRequest
    /\ \E file_id \in uuid4(FileIds, file_storage) :
          file_storage' = Stored(file_storage, file_id, df)
    /\ UNCHANGED <<analysis_cache, req, resp>>

Upload == \E df \in DataFrames : process_file(df)

\* POST /chart-data handled from the request body to the response
ChartData ==
    /\ req = NoRequest
    /\ \E r \in Requests :
          /\ req' = r @@ [via |-> "http"]
          /\ resp' = chart_data_endpoint(file_storage, r)
          /\ file_storage' = file_storage_after(file_storage, r)
          /\ UNCHANGED analysis_cache

\* ChartDataService.get_chart_data called directly, without the request model
ServiceCall ==
    /\ req = NoRequest
    /\ \E r \in DirectCalls :
          /\ req' = r @@ [via |-> "direct"]
          /\ resp' = direct_call(file_storage, r)
          /\ file_storage' = file_storage_after(file_storage, r)
          /\ UNCHANGED analysis_cache

\* the response is handed to the caller; the handler's frame is gone
Return ==
    /\ req # NoRequest
    /\ req' = NoRequest
    /\ resp' = NoResponse
    /\ UNCHANGED <<file_storage, analysis_cache>>

Next == Upload \/ ChartData \/ ServiceCall \/ Return

Spec == Init /\ [][Next]_vars

(* ---------------------------------------------------------------------- *)
(* Requests in flight together                                             *)
(* ---------------------------------------------------------------------- *)
\* The handlers are coroutines on one event loop: get_chart_data (main.py)
\* has no await and runs from the parsed body to the response in one step;
\* upload_file suspends at await file.read() and then runs process_file,
\* which has no await of its own, in one step.  req and resp hold one
\* request and one response per client.
Clients == {"c1", "c2"}

ConcurrentFileIds == {"f1", "f2"}

ConcurrentFrames ==
    {[columns |-> SalesColumns, rows |-> rs] :
        rs \in {<<>>,
                <<[region |-> <<"east">>, segment |-> <<"a">>, price |-> <<1>>]>>,
                <<[region |-> <<"west">>, segment |-> <<"b">>, price |-> NA]>>}}

ConcurrentRequests ==
    {[file_id |-> f, chart_type |-> t,
      parameters |-> [DefaultParameters EXCEPT !.x_axis = "region"]] :
        f \in ConcurrentFileIds, t \in {"bar", "pie"}}

ConcurrentInit ==
    /\ file_storage = <<>>
    /\ analysis_cache = <<>>
    /\ req = [c \in Clients |-> NoRequest]
    /\ resp = [c \in Clients |-> NoResponse]

\* a client posts a chart-data request; stored records whether its file_id
\* is in the store at that moment
SendChartData(c) ==
    /\ req[c] = NoRequest
    /\ \E r \in ConcurrentRequests :
          req' = [req EXCEPT ![c] = r @@ [via |-> "http",
                                         stored |-> r.file_id \in DOMAIN file_storage]]
    /\ UNCHANGED <<file_storage, analysis_cache, resp>>

\* the event loop runs the chart-data handler
HandleChartData(c) ==
    /\ req[c].via = "http"
    /\ resp[c] = NoResponse
    /\ resp' = [resp EXCEPT ![c] = chart_data_endpoint(file_storage, req[c])]
    /\ file_storage' = file_storage_after(file_storage, req[c])
    /\ UNCHANGED <<analysis_cache, req>>

\* a client posts a file; upload_file runs up to await file.read()
SendUpload(c) ==
    /\ req[c] = NoRequest
    /\ \E df \in ConcurrentFrames :
          req' = [req EXCEPT ![c] = [via |-> "upload", df |-> df]]
    /\ UNCHANGED <<file_storage, analysis_cache, resp>>

\* upload_file resumes: process_file stores the DataFrame and the handler
\* builds the FileUploadResponse
StoreUpload(c) ==
    /\ req[c].via = "upload"
    /\ resp[c] = NoResponse
    /\ \E file_id \in uuid4(ConcurrentFileIds, file_storage) :
          /\ file_storage' = Stored(file_storage, file_id, req[c].df)
          /\ resp' = [resp EXCEPT ![c] = [status |-> "200", file_id |-> file_id]]
    /\ UNCHANGED <<analysis_cache, req>>

\* the response reaches the client
Receive(c) ==
    /\ resp[c] # NoResponse
    /\ req' = [req EXCEPT ![c] = NoRequest]
    /\ resp' = [resp EXCEPT ![c] = NoResponse]
    /\ UNCHANGED <<file_storage, analysis_cache>>

ConcurrentNext ==
    \E c \in Clients :
        \/ SendChartData(c)
        \/ HandleChartData(c)
        \/ SendUpload(c)
        \/ StoreUpload(c)
        \/ Receive(c)

ConcurrentSpec == ConcurrentInit /\ [][ConcurrentNext]_vars

(* ---------------------------------------------------------------------- *)
(* AI analysis                                                             *)
(* ---------------------------------------------------------------------- *)
\* The text of a chat completion is a sequence of tokens: the brackets of a
\* JSON array, "s1" and "s2" for JSON objects that validate as a
\* ChartSuggestion, "bad" for a JSON object that does not (no title, an
\* unknown chart_type), "prose" for anything that is not JSON.
Items == {"s1", "s2", "bad"}

\* what client.chat.completions.create can do: raise, or return a message
\* whose content is None or a text
Completions ==
    {[raised |-> TRUE, content |-> NA]} \cup
    {[raised |-> FALSE, content |-> c] :
        c \in {NA,
               <<<<"prose">>>>,
               <<<<"[", "s1", "]">>>>,
               <<<<"prose", "[", "s1", "s2", "]", "prose">>>>,
               <<<<"[", "bad", "s2", "]">>>>,
               <<<<"[", "]">>>>,
               <<<<"]", "prose", "[">>>>,
               <<<<"[", "s1", "prose", "]">>>>,
               <<<<"[", "s1">>>>}}

\* str.find: the 0-based position of the first occurrence, -1 without one
find(text, tok) ==
    IF \E i \in 1..Len(text) : text[i] = tok
    THEN (CHOOSE i \in 1..Len(text) :
              text[i] = tok /\ \A j \in 1..(i - 1) : text[j] # tok) - 1
    ELSE -1

\* str.rfind: the 0-based position of the last occurrence, -1 without one
rfind(text, tok) ==
    IF \E i \in 1..Len(text) : text[i] = tok
    THEN (CHOOSE i \in 1..Len(text) :
              text[i] = tok /\ \A j \in (i + 1)..Len(text) : text[j] # tok) - 1
    ELSE -1

\* response_text[start_idx:end_idx]
Substring(text, start_idx, end_idx) ==
    [k \in 1..(IF end_idx > start_idx THEN end_idx - start_idx ELSE 0) |->
        text[start_idx + k]]

\* json.loads accepts the text of an array of JSON objects
json_loadable(json_str) ==
    /\ Len(json_str) >= 2
    /\ json_str[1] = "["
    /\ json_str[Len(json_str)] = "]"
    /\ \A k \in 2..(Len(json_str) - 1) : json_str[k] \in Items

\* the objects of the array
json_loads(json_str) == [k \in 1..(Len(json_str) - 2) |-> json_str[k + 1]]

\* the items that build a ChartSuggestion, in order; the others are skipped
Validated(items) == SelectSeq(items, LAMBDA item : item # "bad")

\* _parse_ai_response: every exception raised on the way, the ValueError for
\* a text without an array included, is caught and answered with []
parse_ai_response(content) ==
    IF content = NA
    THEN <<>>
    ELSE LET start_idx == find(content[1], "[")
             end_idx == rfind(content[1], "]") + 1
         IN IF start_idx = -1 \/ end_idx = 0
            THEN <<>>
            ELSE IF json_loadable(Substring(content[1], start_idx, end_idx))
                 THEN Validated(json_loads(Substring(content[1], start_idx, end_idx)))
                 ELSE <<>>

\* f"analysis_{file_id}"
cache_key(file_id) == <<"analysis", file_id>>

\* a lookup that never finds an entry
cached_never(cache, key) == FALSE

\* cache_key in analysis_cache
cached(cache, key) == key \in DOMAIN cache

\* analyze_data: the list returned, the cache afterwards and the number of
\* calls of the AI client.  _prepare_data_summary and _create_analysis_prompt
\* format the metadata of the DataFrame and change nothing.
analyze_data(cache, file_id, completion) ==
    IF cached(cache, cache_key(file_id))
    THEN [returned |-> cache[cache_key(file_id)], cache |-> cache, ai_calls |-> 0]
    ELSE IF completion.raised
         THEN [returned |-> <<>>, cache |-> cache, ai_calls |-> 1]
         ELSE [returned |-> parse_ai_response(completion.content),
               cache |-> Stored(cache, cache_key(file_id),
                                parse_ai_response(completion.content)),
               ai_calls |-> 1]

\* POST /analyze/{file_id}
analyze_file_with_ai(storage, cache, file_id, completion) ==
    IF file_id \notin DOMAIN storage
    THEN [resp |-> [status |-> "404", detail |-> <<"File", "not", "found">>,
                    body |-> <<>>,
                    call |-> [raised |-> "", builder |-> "", rows_read |-> FALSE,
                              ai_calls |-> 0, completion |-> completion]],
          cache |-> cache]
    ELSE LET a == analyze_data(cache, file_id, completion)
         IN [resp |-> [status |-> "200", detail |-> <<>>,
                       body |-> [file_id |-> file_id,
                                 suggestions |-> a.returned,
                                 total_rows |-> Len(storage[file_id].rows),
                                 total_columns |-> Len(storage[file_id].columns)],
                       call |-> [raised |-> "", builder |-> "analyze_data",
                                 rows_read |-> FALSE, ai_calls |-> a.ai_calls,
                                 completion |-> completion]],
             cache |-> a.cache]

\* a file is uploaded
AnalysisUpload ==
    /\ req = NoRequest
    /\ \E df \in ConcurrentFrames :
          \E file_id \in uuid4(ConcurrentFileIds, file_storage) :
              file_storage' = Stored(file_storage, file_id, df)
    /\ UNCHANGED <<analysis_cache, req, resp>>

\* POST /analyze/{file_id} handled from the request to the response, one
\* call after the other; the completion is what the AI client does if it is
\* called
Analyze ==
    /\ req = NoRequest
    /\ \E file_id \in ConcurrentFileIds, completion \in Completions :
          LET r == analyze_file_with_ai(file_storage, analysis_cache, file_id, completion)
          IN /\ req' = [NoRequest EXCEPT !.file_id = file_id, !.via = "analyze"]
             /\ resp' = r.resp
             /\ analysis_cache' = r.cache
    /\ UNCHANGED file_storage

AnalysisNext == AnalysisUpload \/ Analyze \/ Return

AnalysisSpec == Init /\ [][AnalysisNext]_vars

(* ====================================================================== *)
(* Properties                                                              *)
(* ====================================================================== *)
Handled == req # NoRequest

\* the request was served from a stored DataFrame and a payload came back
Served(chart_types) ==
    /\ Handled
    /\ req.chart_type \in chart_types
    /\ req.file_id \in DOMAIN file_storage
    /\ resp.call.raised = ""

Frame == file_storage[req.file_id]

Data == resp.body.data

Metadata == resp.body.metadata

RowSet == 1..Len(Frame.rows)

\* the sum of column c over a set of row positions holding numbers
RECURSIVE SumOver(_, _, _)
SumOver(df, c, S) ==
    IF S = {} THEN 0
    ELSE LET i == CHOOSE i \in S : TRUE
         IN  df.rows[i][c][1] + SumOver(df, c, S \ {i})

RECURSIVE SumField(_, _)
SumField(recs, f) ==
    IF recs = <<>> THEN 0 ELSE recs[1][f] + SumField(Tail(recs), f)

(* ---------------------------------------------------------------------- *)
(* C1  waterfall totals                                                    *)
(* ---------------------------------------------------------------------- *)
WaterfallServed ==
    /\ Served({"waterfall"})
    /\ req.parameters.x_axis # None
    /\ req.parameters.y_axis # None

\* C1 as claimed: after a waterfall request with x_axis and y_axis set, the
\* `end` of the last record and metadata.total_change both equal the sum of
\* the y_axis values of all input rows.
C1_TotalOverAllRows ==
    WaterfallServed =>
        LET total == SumOver(Frame, req.parameters.y_axis,
                             {i \in RowSet : notna(Frame.rows[i][req.parameters.y_axis])})
        IN  /\ Data # <<>> => Data[Len(Data)].end = total
            /\ Metadata.total_change = total

\* C1 as amended: the `end` of the last record and metadata.total_change equal
\* the sum of the y_axis values over the rows in which neither x_axis nor
\* y_axis is null (the rows the builder keeps); with no such row there is no
\* record and total_change is 0.
C1_TotalOverKeptRows ==
    WaterfallServed =>
        LET both == {i \in RowSet :
                        /\ notna(Frame.rows[i][req.parameters.x_axis])
                        /\ notna(Frame.rows[i][req.parameters.y_axis])}
            total == SumOver(Frame, req.parameters.y_axis, both)
        IN  /\ Len(Data) = Cardinality(both)
            /\ Data # <<>> => Data[Len(Data)].end = total
            /\ Metadata.total_change = total

\* a waterfall with a record and a positive total, served from a frame that
\* also holds a row with a value but no category
C1_Witness ==
    /\ WaterfallServed
    /\ Len(Data) >= 1
    /\ Data[Len(Data)].end >= 1
    /\ \E i \in RowSet :
          /\ Frame.rows[i][req.parameters.x_axis] = NA
          /\ notna(Frame.rows[i][req.parameters.y_axis])

(* ---------------------------------------------------------------------- *)
(* C2  histogram bins                                                      *)
(* ---------------------------------------------------------------------- *)
HistogramServed ==
    /\ Served({"histogram"})
    /\ req.parameters.bins # <<0>>

HistValues == Values(Column(Frame, req.parameters.x_axis))

\* the labels' bounds are contiguous and strictly increasing
Contiguous(data) ==
    /\ \A i \in 1..Len(data) : data[i].bin[1] < data[i].bin[2]
    /\ \A i \in 1..(Len(data) - 1) : data[i].bin[2] = data[i + 1].bin[1]

BarCountServed ==
    /\ Served({"bar"})
    /\ req.parameters.y_axis # None
    /\ req.parameters.aggregation = "count"

\* the sum over the records of the reduced y column, a whole number
RECURSIVE SumReduced(_, _)
SumReduced(recs, y) ==
    IF recs = <<>> THEN 0 ELSE recs[1][y][1][1] + SumReduced(Tail(recs), y)

\* C3 as claimed: with aggregation count the output counts sum to the number
\* of rows whose y_axis value is non-null, rows with a null x_axis included.
C3_CountsAllValueRows ==
    BarCountServed =>
        SumReduced(Data, req.parameters.y_axis) =
            Cardinality({i \in RowSet : notna(Frame.rows[i][req.parameters.y_axis])})

\* C3 as amended: with aggregation count the output counts sum to the number
\* of rows whose y_axis value and x_axis key are both non-null; rows with a
\* null x_axis key are in no group.
C3_CountsKeyedValueRows ==
    BarCountServed =>
        /\ SumReduced(Data, req.parameters.y_axis) =
              Cardinality({i \in RowSet :
                              /\ notna(Frame.rows[i][req.parameters.y_axis])
                              /\ notna(Frame.rows[i][req.parameters.x_axis])})
        /\ \A k \in 1..Len(Data) : Data[k][req.parameters.y_axis][1][2] = 1

\* a count bar chart over a frame holding a keyed row with a value, a keyed
\* row without one, and a row with a value but no key
C3_Witness ==
    /\ BarCountServed
    /\ SumReduced(Data, req.parameters.y_axis) >= 1
    /\ \E i \in RowSet :
          /\ Frame.rows[i][req.parameters.x_axis] = NA
          /\ notna(Frame.rows[i][req.parameters.y_axis])

(* ---------------------------------------------------------------------- *)
(* C4  bar without y_axis                                                  *)
(* ---------------------------------------------------------------------- *)
BarFrequencyServed ==
    /\ Served({"bar"})
    /\ req.parameters.x_axis # None
    /\ req.parameters.y_axis = None

\* C4: a bar request with x_axis and no y_axis returns, whatever the
\* aggregation, exactly one record per distinct (non-null) x_axis value, whose
\* `count` is the number of rows holding that value, and metadata.y_column is
\* `count`.
C4_FrequencyTable ==
    BarFrequencyServed =>
        LET x == req.parameters.x_axis
            distinct == {Frame.rows[i][x][1] : i \in {j \in RowSet : notna(Frame.rows[j][x])}}
        IN  /\ Len(Data) = Cardinality(distinct)
            /\ {Data[k][x] : k \in 1..Len(Data)} = distinct
            /\ \A k \in 1..Len(Data) :
                  Data[k]["count"] =
                      Cardinality({i \in RowSet : Frame.rows[i][x] = <<Data[k][x]>>})
            /\ Metadata.y_column = "count"

\* the default aggregation (sum), a value held by two rows
C4_Witness ==
    /\ BarFrequencyServed
    /\ req.parameters.aggregation = "sum"
    /\ \E k \in 1..Len(Data) : Data[k]["count"] = 2

(* ---------------------------------------------------------------------- *)
(* C5  pivot-based builders                                                *)
(* ---------------------------------------------------------------------- *)
PivotServed ==
    \/ /\ Served({"stacked_bar", "area", "stacked_area"})
       /\ req.parameters.stack_by # None
    \/ Served({"heatmap"})

\* the columns the pivot is indexed by, spread over, and reduces
PivotIndex ==
    IF req.chart_type = "heatmap" THEN req.parameters.y_axis ELSE req.parameters.x_axis

PivotSeries ==
    IF req.chart_type = "heatmap" THEN req.parameters.x_axis ELSE req.parameters.stack_by

PivotValues ==
    IF req.chart_type = "heatmap" THEN req.parameters.z_axis ELSE req.parameters.y_axis

\* the input rows of a (row-key, series) pair
PairRows(p) ==
    {i \in RowSet : /\ Frame.rows[i][PivotIndex] = <<p[1]>>
                    /\ Frame.rows[i][PivotSeries] = <<p[2]>>}

\* the (row-key, series) pairs that occur in an input row
InPairs ==
    {<<Frame.rows[i][PivotIndex][1], Frame.rows[i][PivotSeries][1]>> :
        i \in {j \in RowSet : /\ notna(Frame.rows[j][PivotIndex])
                               /\ notna(Frame.rows[j][PivotSeries])}}

\* the pairs whose reduction is a number: all of them under size, sum and
\* count, those with a value under mean, min and max
Reducible ==
    {p \in InPairs :
        \/ PivotValues = None
        \/ req.parameters.aggregation \in {"sum", "count"}
        \/ \E i \in PairRows(p) : notna(Frame.rows[i][PivotValues])}

OutRows ==
    CASE req.chart_type = "stacked_bar" ->
            {Data[i][<<"category">>] : i \in 1..Len(Data)}
      [] req.chart_type = "heatmap" -> Range(Metadata.y_categories)
      [] OTHER -> {Data[i][<<"x">>] : i \in 1..Len(Data)}

OutSeries ==
    CASE req.chart_type = "stacked_bar" -> Range(Metadata.stack_categories)
      [] req.chart_type = "heatmap" -> Range(Metadata.x_categories)
      [] OTHER ->
            UNION {{k[1] : k \in {j \in DOMAIN Data[i] : Len(j) = 2 /\ j[2] = "_value"}} :
                      i \in 1..Len(Data)}

\* the values the output holds for row-key r and series s
OutCells(r, s) ==
    CASE req.chart_type = "stacked_bar" ->
            {Data[i][<<s, "_value">>] :
                i \in {j \in 1..Len(Data) : /\ Data[j][<<"category">>] = r
                                             /\ <<s, "_value">> \in DOMAIN Data[j]}}
      [] req.chart_type = "heatmap" ->
            {Data[i].value :
                i \in {j \in 1..Len(Data) : Data[j].y = r /\ Data[j].x = s}}
      [] OTHER ->
            {Data[i][<<s, "_value">>] :
                i \in {j \in 1..Len(Data) : /\ Data[j][<<"x">>] = r
                                             /\ <<s, "_value">> \in DOMAIN Data[j]}}

\* every row-key has exactly one cell for every series, and no record is
\* repeated
Rectangular ==
    /\ \A r \in OutRows : \A s \in OutSeries : Cardinality(OutCells(r, s)) = 1
    /\ Len(Data) = (IF req.chart_type = "heatmap"
                    THEN Cardinality(OutRows) * Cardinality(OutSeries)
                    ELSE Cardinality(OutRows))

\* C5 as claimed: every (row-key, series) pair that occurs in an input row
\* has an output cell, the output is rectangular, and every cell whose pair
\* has no input row holds zero, never null.
C5_EveryPairHasCell ==
    PivotServed =>
        /\ \A p \in InPairs : OutCells(p[1], p[2]) # {}
        /\ Rectangular
        /\ \A r \in OutRows : \A s \in OutSeries :
              <<r, s>> \notin InPairs => OutCells(r, s) = {QInt(0)}

\* C5 as amended: the row-keys and the series of the output are those of the
\* input pairs whose reduction is a number (every pair under sum, count and
\* size; under mean, min and max the pairs with a non-null value), each of
\* these pairs has a cell, the output is rectangular, and every other cell
\* holds zero, never null.
C5_ReduciblePairsHaveCells ==
    PivotServed =>
        /\ OutRows = {p[1] : p \in Reducible}
        /\ OutSeries = {p[2] : p \in Reducible}
        /\ Rectangular
        /\ \A r \in OutRows : \A s \in OutSeries :
              /\ NA \notin OutCells(r, s)
              /\ <<r, s>> \notin Reducible => OutCells(r, s) = {QInt(0)}

\* a pivot under mean, min or max over a frame with one pair that has a value
\* and one that has none
C5_Witness ==
    /\ PivotServed
    /\ Reducible # {}
    /\ InPairs \ Reducible # {}
    /\ \E r \in OutRows : \E s \in OutSeries : OutCells(r, s) # {QInt(0)}

(* ---------------------------------------------------------------------- *)
(* C6  bubble sizes                                                        *)
(* ---------------------------------------------------------------------- *)
BubbleServed == Served({"bubble"})

\* the positions of the rows with no null in x_axis, y_axis and size_by
Retained ==
    SelectSeq([i \in RowSet |-> i],
              LAMBDA i : /\ notna(Frame.rows[i][req.parameters.x_axis])
                         /\ notna(Frame.rows[i][req.parameters.y_axis])
                         /\ notna(Frame.rows[i][req.parameters.size_by]))

\* C6: after a bubble request that succeeds every record's size lies in
\* [10, 50], and the records are, in order, those of the input rows with no
\* null among x_axis, y_axis and size_by.
C6_SizesWithinRange ==
    BubbleServed =>
        /\ \A k \in 1..Len(Data) :
              /\ fle(FromInt(SizeFloor), Data[k].size)
              /\ fle(Data[k].size, FromInt(SizeFloor + SizeSpan))
        /\ Len(Data) = Len(Retained)
        /\ \A k \in 1..Len(Data) :
              /\ Data[k].x = Frame.rows[Retained[k]][req.parameters.x_axis][1]
              /\ Data[k].y = Frame.rows[Retained[k]][req.parameters.y_axis][1]
              /\ Data[k].original_size =
                    float64(req.parameters.size_by,
                            Frame.rows[Retained[k]][req.parameters.size_by][1])

\* sizes 0.0 and 0.49: the larger one is given a size above 50
C6_Witness ==
    /\ BubbleServed
    /\ \E j, k \in 1..Len(Data) :
          /\ Data[j].size = FromInt(SizeFloor)
          /\ ~fle(Data[k].size, FromInt(SizeFloor + SizeSpan))

(* ---------------------------------------------------------------------- *)
(* C7  bubble sizes of a constant column                                   *)
(* ---------------------------------------------------------------------- *)
\* a bubble request with its three fields set, handled on a stored frame
\* whose retained rows all hold the same size
BubbleConstant ==
    /\ Handled
    /\ req.chart_type = "bubble"
    /\ req.file_id \in DOMAIN file_storage
    /\ req.parameters.x_axis # None
    /\ req.parameters.y_axis # None
    /\ req.parameters.size_by # None
    /\ AllColumns(Frame, <<req.parameters.x_axis, req.parameters.y_axis,
                           req.parameters.size_by>>)
    /\ Retained # <<>>
    /\ \A j, k \in 1..Len(Retained) :
          Frame.rows[Retained[j]][req.parameters.size_by]
              = Frame.rows[Retained[k]][req.parameters.size_by]

\* C7 as claimed: when the retained rows all hold the same size, every record
\* receives the midpoint of [10, 50], and no division by zero occurs.
C7_ConstantGetsMidpoint ==
    BubbleConstant =>
        /\ "ZeroDivisionError" \notin Range(resp.detail)
        /\ resp.call.raised = "" =>
              \A k \in 1..Len(Data) : Data[k].size = FromInt(SizeFloor + SizeSpan \div 2)

\* C7 as amended: when the retained rows all hold the same size, every record
\* receives the size 25, and no division by zero occurs.
C7_ConstantGets25 ==
    BubbleConstant =>
        /\ "ZeroDivisionError" \notin Range(resp.detail)
        /\ resp.call.raised = "" =>
              /\ Len(Data) = Len(Retained)
              /\ \A k \in 1..Len(Data) : Data[k].size = FromInt(ConstantSize)

\* two retained rows of the same size, each with a record
C7_Witness ==
    /\ BubbleConstant
    /\ resp.call.raised = ""
    /\ Len(Retained) >= 2
    /\ Len(Data) = Len(Retained)

(* ---------------------------------------------------------------------- *)
(* Error kinds                                                             *)
(* ---------------------------------------------------------------------- *)
\* what tells one failure from another without reading the message: the
\* HTTP status and the class of the exception
KindOf(response) == <<response.status, response.call.raised>>

\* the response to request r over the route `via`
Route(storage, via, r) ==
    IF via = "http" THEN chart_data_endpoint(storage, r) ELSE direct_call(storage, r)

\* a store holding one empty file, to which the reference requests are sent
SampleStorage == ("f1" :> [columns |-> SalesColumns, rows |-> <<>>])

\* a bar request without x_axis: a required field is missing
ValidationKind(via) ==
    KindOf(Route(SampleStorage, via,
                 [file_id |-> "f1", chart_type |-> "bar", parameters |-> DefaultParameters]))

\* a bar request for a file that is not stored
NotFoundKind(via) ==
    KindOf(Route(SampleStorage, via,
                 [file_id |-> UnknownFile, chart_type |-> "bar",
                  parameters |-> DefaultParameters]))

\* a bar request on a column the file does not have: the builder breaks
ComputationKind(via) ==
    KindOf(Route(SampleStorage, via,
                 [file_id |-> "f1", chart_type |-> "bar",
                  parameters |-> [DefaultParameters EXCEPT !.x_axis = "size"]]))

(* ---------------------------------------------------------------------- *)
(* C8  unsupported chart type                                              *)
(* ---------------------------------------------------------------------- *)
UnsupportedHandled ==
    /\ Handled
    /\ req.chart_type \notin ChartType
    /\ req.file_id \in DOMAIN file_storage

\* C8: a request for a chart type without a builder fails before any builder
\* runs, with an error of a kind of its own, which is not the kind of a
\* validation, a not-found or a computation error.
C8_UnsupportedIsOwnKind ==
    UnsupportedHandled =>
        /\ resp.call.raised # ""
        /\ resp.call.builder = ""
        /\ ~resp.call.rows_read
        /\ KindOf(resp) \notin {ValidationKind(req.via), NotFoundKind(req.via),
                                ComputationKind(req.via)}

\* the service asked for a chart type it has no builder for
C8_Witness ==
    /\ UnsupportedHandled
    /\ req.via = "direct"
    /\ resp.call.raised = "ValueError"
    /\ "implemented" \in Range(resp.detail)

(* ---------------------------------------------------------------------- *)
(* C9  unknown file                                                        *)
(* ---------------------------------------------------------------------- *)
NotFoundHandled ==
    /\ Handled
    /\ req.chart_type \in ChartType
    /\ req.file_id \notin DOMAIN file_storage

\* C9: a chart-data request for a file that is not stored fails, no builder
\* is invoked, and the error is of a kind the caller can tell apart from that
\* of a validation error.
C9_NotFoundIsOwnKind ==
    NotFoundHandled =>
        /\ resp.call.raised # ""
        /\ resp.call.builder = ""
        /\ ~resp.call.rows_read
        /\ KindOf(resp) # ValidationKind(req.via)

\* POST /chart-data for a file that is not stored, answered with 400
C9_Witness ==
    /\ NotFoundHandled
    /\ req.via = "http"
    /\ resp.status = "400"
    /\ resp.detail = <<"File", UnknownFile, "not", "found">>

(* ---------------------------------------------------------------------- *)
(* C10  required fields                                                    *)
(* ---------------------------------------------------------------------- *)
\* the required fields of the chart types, as the claim lists them
Required ==
    [bar |-> {"x_axis"}, scatter |-> {"x_axis", "y_axis"}, line |-> {"x_axis", "y_axis"},
     bubble |-> {"x_axis", "y_axis", "size_by"}, heatmap |-> {"x_axis", "y_axis"},
     box |-> {"y_axis"}, violin |-> {"y_axis"}, density |-> {"x_axis"}]

Omitted ==
    IF req.chart_type \in DOMAIN Required
    THEN {f \in Required[req.chart_type] : req.parameters[f] = None}
    ELSE {}

RequiredOmitted ==
    /\ Handled
    /\ req.file_id \in DOMAIN file_storage
    /\ Omitted # {}

\* C10: a request on a stored file that omits a required field of its chart
\* type fails in that type's builder with a ValueError (400 over HTTP) whose
\* message names every omitted field, before any row of the file is read.
C10_MissingFieldNamed ==
    RequiredOmitted =>
        /\ resp.call.raised = "ValueError"
        /\ req.via = "http" => resp.status = "400"
        /\ resp.call.builder = req.chart_type
        /\ Omitted \subseteq Range(resp.detail)
        /\ ~resp.call.rows_read

\* a bubble request with x_axis and y_axis but no size_by
C10_Witness ==
    /\ RequiredOmitted
    /\ req.chart_type = "bubble"
    /\ Omitted = {"size_by"}
    /\ resp.status = "400"

(* ---------------------------------------------------------------------- *)
(* C11  columns that the file lacks                                        *)
(* ---------------------------------------------------------------------- *)
\* the parameters that name columns
ColumnFields ==
    {"x_axis", "y_axis", "z_axis", "color_by", "size_by", "group_by", "stack_by"}

\* the column names the request refers to that the stored file lacks
AbsentColumns ==
    {req.parameters[f] : f \in {g \in ColumnFields : req.parameters[g] # None}}
        \ Range(Frame.columns)

AbsentColumnHandled ==
    /\ Handled
    /\ req.chart_type \in ChartType
    /\ req.file_id \in DOMAIN file_storage
    /\ AbsentColumns # {}

\* C11: a request on a stored file in which a column parameter names a column
\* the file lacks fails; it never comes back with a payload.
C11_AbsentColumnFails ==
    AbsentColumnHandled => resp.call.raised # ""

\* a scatter plot coloured by a column the file lacks, answered with a payload
C11_Witness ==
    /\ AbsentColumnHandled
    /\ req.chart_type = "scatter"
    /\ AbsentColumns = {Absent}
    /\ resp.status = "200"
    /\ Metadata.color_column = Absent
    /\ Len(Data) >= 1

(* ---------------------------------------------------------------------- *)
(* C12  aggregation outside the enumerated set                             *)
(* ---------------------------------------------------------------------- *)
\* the reducer names ChartParameters.aggregation is documented to take
Aggregations == {"sum", "mean", "count", "median", "min", "max", "std", "var"}

UnrecognizedHandled ==
    /\ Handled
    /\ req.chart_type \in ChartType
    /\ req.file_id \in DOMAIN file_storage
    /\ req.parameters.aggregation \notin Aggregations \cup {None}

\* C12: a request on a stored file whose aggregation is a string outside the
\* enumerated set fails, and it fails before the rows of the file are read.
C12_UnrecognizedRejected ==
    UnrecognizedHandled =>
        /\ resp.call.raised # ""
        /\ ~resp.call.rows_read

\* a bar chart without y_axis and with an unrecognized aggregation, answered
\* with the frequency table
C12_Witness ==
    /\ UnrecognizedHandled
    /\ req.chart_type = "bar"
    /\ req.parameters.y_axis = None
    /\ resp.status = "200"
    /\ Metadata.aggregation = Unrecognized
    /\ Len(Data) >= 1

(* ---------------------------------------------------------------------- *)
(* C13  fallback to mean                                                   *)
(* ---------------------------------------------------------------------- *)
\* the request reaches the reduction of a builder with an unrecognized
\* aggregation: its required fields are set and the file has the columns
ReducesUnrecognized ==
    /\ UnrecognizedHandled
    /\ AbsentColumns = {}
    /\ \/ /\ req.chart_type = "bar"
          /\ req.parameters.x_axis # None
          /\ req.parameters.y_axis # None
       \/ /\ req.chart_type \in {"stacked_bar", "grouped_bar", "stacked_area"}
          /\ req.parameters.x_axis # None
          /\ req.parameters.y_axis # None
          /\ req.parameters.stack_by # None
       \/ /\ req.chart_type = "heatmap"
          /\ req.parameters.x_axis # None
          /\ req.parameters.y_axis # None
          /\ req.parameters.z_axis # None

\* C13: a reducing builder given an unrecognized aggregation returns a
\* payload, the one it returns for the aggregation mean.
C13_FallsBackToMean ==
    ReducesUnrecognized =>
        /\ resp.call.raised = ""
        /\ Data = Dispatch(Frame, req.chart_type,
                           [req.parameters EXCEPT !.aggregation = "mean"]).data

\* a bar chart of price by region with an unrecognized aggregation, refused
\* by the reduction itself
C13_Witness ==
    /\ ReducesUnrecognized
    /\ req.chart_type = "bar"
    /\ req.via = "http"
    /\ resp.status = "400"
    /\ resp.detail = ErrorPrefix \o <<"AttributeError", Unrecognized>>
    /\ Frame.rows # <<>>

(* ---------------------------------------------------------------------- *)
(* C14  order of groups, row-keys and series                               *)
(* ---------------------------------------------------------------------- *)
\* a payload of a grouping or pivot builder, for a request that asks for no
\* sorting
GroupedServed ==
    /\ Served({"bar", "pie", "donut", "treemap", "sunburst", "box",
               "stacked_bar", "grouped_bar", "area", "stacked_area", "heatmap"})
    /\ req.parameters.sort_by = None
    /\ req.parameters.x_axis # None
    /\ req.chart_type \in {"area", "stacked_area"} => req.parameters.stack_by # None

\* the keys of the output records (of the rows of the heatmap), in order
RowKeys ==
    CASE req.chart_type = "bar" ->
            [k \in 1..Len(Data) |-> Data[k][req.parameters.x_axis]]
      [] req.chart_type \in {"pie", "donut"} -> [k \in 1..Len(Data) |-> Data[k].label]
      [] req.chart_type \in {"treemap", "sunburst"} ->
            [k \in 1..Len(Data) |-> Data[k].name]
      [] req.chart_type = "box" -> [k \in 1..Len(Data) |-> Data[k].group]
      [] req.chart_type \in {"stacked_bar", "grouped_bar"} ->
            [k \in 1..Len(Data) |-> Data[k][<<"category">>]]
      [] req.chart_type \in {"area", "stacked_area"} ->
            [k \in 1..Len(Data) |-> Data[k][<<"x">>]]
      [] req.chart_type = "heatmap" -> Metadata.y_categories

\* the column the keys of the records come from
RowKeyColumn ==
    IF req.chart_type = "heatmap" THEN req.parameters.y_axis ELSE req.parameters.x_axis

\* the series of a pivot payload, in order, where the payload lists them
SeriesKeys ==
    CASE req.chart_type \in {"stacked_bar", "grouped_bar"} -> Metadata.stack_categories
      [] req.chart_type = "heatmap" -> Metadata.x_categories
      [] OTHER -> <<>>

SeriesColumn ==
    IF req.chart_type = "heatmap" THEN req.parameters.x_axis
    ELSE IF req.parameters.stack_by # None THEN req.parameters.stack_by
    ELSE req.parameters.color_by

\* the position of the first row of df holding key in column c
FirstRow(df, c, key) == CHOOSE i \in 1..Len(df.rows) :
                            /\ df.rows[i][c] = <<key>>
                            /\ \A j \in 1..(i - 1) : df.rows[j][c] # <<key>>

FirstEncountered(keys, df, c) ==
    \A i, j \in 1..Len(keys) : i < j => FirstRow(df, c, keys[i]) < FirstRow(df, c, keys[j])

Ascending(keys) ==
    \A i, j \in 1..Len(keys) : i < j => Rank(keys[i]) < Rank(keys[j])

\* the payload counts occurrences: bar without y_axis, pie, donut
FrequencyServed ==
    \/ req.chart_type = "bar" /\ req.parameters.y_axis = None
    \/ req.chart_type \in {"pie", "donut"}

RowCounts ==
    IF req.chart_type = "bar" THEN [k \in 1..Len(Data) |-> Data[k]["count"]]
    ELSE [k \in 1..Len(Data) |-> Data[k].value]

SortedServed ==
    /\ Served({"bar"})
    /\ req.parameters.sort_by # None
    /\ req.parameters.y_axis = req.parameters.sort_by

\* the values of the sort column in the records, in order
SortValues == [k \in 1..Len(Data) |-> Data[k][req.parameters.sort_by]]

\* C15: when sort_by names a column the records are sorted by it, ascending
\* for sort_order asc and descending for desc.
C15_SortedBySortBy ==
    SortedServed =>
        \A i, j \in 1..Len(Data) :
            (i < j /\ notna(SortValues[i]) /\ notna(SortValues[j])) =>
                IF req.parameters.sort_order = "asc"
                THEN QLe(SortValues[i][1], SortValues[j][1])
                ELSE QLe(SortValues[j][1], SortValues[i][1])

\* sort_by price, sort_order desc, and the smaller sum comes first
C15_Witness ==
    /\ SortedServed
    /\ req.parameters.sort_order = "desc"
    /\ Len(Data) = 2
    /\ notna(SortValues[1]) /\ notna(SortValues[2])
    /\ QLt(SortValues[1][1], SortValues[2][1])

(* ---------------------------------------------------------------------- *)
(* C16  a chart-data request leaves the store as it was                    *)
(* ---------------------------------------------------------------------- *)
\* C16: across every chart-data request, answered with a payload or with an
\* error, file_storage keeps its keys and every stored DataFrame keeps its
\* columns, rows and values.
C16_StoreUnchanged ==
    [][(~Handled /\ Handled') =>
          /\ DOMAIN file_storage' = DOMAIN file_storage
          /\ \A f \in DOMAIN file_storage :
                /\ file_storage'[f].columns = file_storage[f].columns
                /\ file_storage'[f].rows = file_storage[f].rows]_vars

\* a payload was computed from a stored DataFrame that has rows
C16_Witness ==
    /\ Handled
    /\ req.file_id \in DOMAIN file_storage
    /\ resp.status = "200"
    /\ resp.call.rows_read
    /\ Frame.rows # <<>>
    /\ Len(Data) >= 1

(* ---------------------------------------------------------------------- *)
(* C17  requests and uploads in flight together                            *)
(* ---------------------------------------------------------------------- *)
\* client c holds the answer to a chart-data request whose file_id was in
\* the store when the request was posted
Answered(c) ==
    /\ req[c].via = "http"
    /\ req[c].stored
    /\ resp[c] # NoResponse

\* the response to the request of client c handled with nothing else in
\* flight, against a store that holds its DataFrame only
Alone(c) ==
    chart_data_endpoint((req[c].file_id :> file_storage[req[c].file_id]), req[c])

\* C17: however chart-data requests and uploads interleave, a request
\* against a stored file_id gets the payload it gets when run alone, equal
\* requests get equal payloads, and every step keeps every stored key with
\* the DataFrame it had.
C17_Interleaved ==
    /\ [](\A c \in Clients : Answered(c) => resp[c] = Alone(c))
    /\ [](\A c, d \in Clients :
            (Answered(c) /\ Answered(d) /\ req[c] = req[d]) => resp[c] = resp[d])
    /\ [][\A f \in DOMAIN file_storage :
            f \in DOMAIN file_storage' /\ file_storage'[f] = file_storage[f]]_vars

\* a payload computed from f1 waits for c1 while the upload of c2 has been
\* stored under f2 after the request of c1 was posted
C17_Witness ==
    /\ Answered("c1")
    /\ req["c1"].file_id = "f1"
    /\ resp["c1"].status = "200"
    /\ Len(resp["c1"].body.data) >= 1
    /\ req["c2"].via = "upload"
    /\ resp["c2"] # NoResponse
    /\ resp["c2"].file_id = "f2"

(* ---------------------------------------------------------------------- *)
(* C18  a payload is whole                                                 *)
(* ---------------------------------------------------------------------- *)
\* a payload of violins grouped by a column
GroupedViolins ==
    /\ Served({"violin"})
    /\ req.parameters.x_axis # None
    /\ req.parameters.y_axis # None

\* the groups that have a record in the payload
GroupsServed == {Data[k].group : k \in 1..Len(Data)}

\* C18: a request returns a payload that leaves no group out or fails as a
\* whole: every group of the grouping column has its record in the payload
\* of grouped violins.
C18_EveryGroupPresent ==
    GroupedViolins =>
        /\ Range(GroupKeys(Frame, req.parameters.x_axis)) \subseteq GroupsServed
        /\ Metadata.total_groups = Len(GroupKeys(Frame, req.parameters.x_axis))

\* a payload of violins by region with west and without east, whose prices
\* are all null
C18_Witness ==
    /\ GroupedViolins
    /\ resp.status = "200"
    /\ GroupsServed = {"west"}
    /\ Range(GroupKeys(Frame, req.parameters.x_axis)) = {"east", "west"}

(* ---------------------------------------------------------------------- *)
(* C19  percentages of pie and funnel                                      *)
(* ---------------------------------------------------------------------- *)
\* the total the percentages refer to: the number of counted values of the
\* pie, the reduced total of the funnel
ReducedTotal ==
    IF req.chart_type = "funnel" THEN Metadata.total_value
    ELSE FromInt(Metadata.total_values)

RecordValue(k) ==
    IF req.chart_type = "funnel" THEN Data[k].value ELSE <<FromInt(Data[k].value)>>

\* C19: every record of a pie or funnel payload carries its percentage,
\* value / total * 100; the percentages sum to 100 when the total is not
\* zero and are all zero when it is.
C19_PercentageOfTotal ==
    Served({"pie", "funnel"}) =>
        /\ \A k \in 1..Len(Data) :
              /\ "percentage" \in DOMAIN Data[k]
              /\ Data[k].percentage = Percentage(RecordValue(k), ReducedTotal)
        /\ (ReducedTotal # FloatZero /\ Len(Data) >= 1) =>
              FloatSum([k \in 1..Len(Data) |-> Data[k].percentage]) = FromInt(100)

\* a pie payload whose record holds a label and a value and nothing else
C19_Witness ==
    /\ Served({"pie"})
    /\ resp.status = "200"
    /\ Len(Data) >= 1
    /\ DOMAIN Data[1] = {"label", "value"}

(* ---------------------------------------------------------------------- *)
(* C20  kernel bandwidth of degenerate groups                              *)
(* ---------------------------------------------------------------------- *)
\* a payload of kernel estimates for a request that supplies no bandwidth
EstimatesServed ==
    /\ Served({"violin", "density", "ridgeline"})
    /\ req.parameters.bandwidth = NA

\* the values of record k are all equal (a single value included)
Degenerate(k) ==
    /\ Data[k].values # <<>>
    /\ \A i \in 1..Len(Data[k].values) : Data[k].values[i] = Data[k].values[1]

\* C20: with no bandwidth supplied, the kernel estimate of a group whose
\* values are all equal is not computed by dividing by a zero bandwidth.
C20_BandwidthNotZero ==
    EstimatesServed =>
        \A k \in 1..Len(Data) : Degenerate(k) => Data[k].bandwidth # QInt(0)

\* the violin of a group that holds one price gets the bandwidth 0 / 20
C20_Witness ==
    /\ EstimatesServed
    /\ req.chart_type = "violin"
    /\ resp.status = "200"
    /\ Len(Data) >= 1
    /\ Degenerate(1)
    /\ Len(Data[1].values) = 1
    /\ Data[1].bandwidth = QInt(0)

(* ---------------------------------------------------------------------- *)
(* C21  order of the funnel                                                *)
(* ---------------------------------------------------------------------- *)
\* C21: the records of a funnel payload come by non-increasing value and
\* the order of each record is its position in the payload, from 0.
C21_OrderIsPosition ==
    Served({"funnel"}) =>
        /\ \A k \in 1..Len(Data) : Data[k].order = k - 1
        /\ \A i, j \in 1..Len(Data) :
              (i < j /\ notna(Data[i].value) /\ notna(Data[j].value)) =>
                  fle(Data[j].value[1], Data[i].value[1])

\* a funnel of two stages whose larger stage comes first and carries order 1
C21_Witness ==
    /\ Served({"funnel"})
    /\ resp.status = "200"
    /\ Len(Data) = 2
    /\ Data[1].stage = "west"
    /\ Data[1].order = 1
    /\ Data[2].order = 0

(* ---------------------------------------------------------------------- *)
(* C22  running total of the waterfall                                     *)
(* ---------------------------------------------------------------------- *)
\* the rows of the file that hold both a category and a value, in row order
WaterfallRows ==
    SelectSeq([i \in RowSet |-> i],
              LAMBDA i : /\ notna(Frame.rows[i][req.parameters.x_axis])
                         /\ notna(Frame.rows[i][req.parameters.y_axis]))

\* C22: the records of a waterfall payload follow the rows of the file, the
\* first starts at 0, each has end = start + value and cumulative = end, and
\* each later record starts where the one before it ends.
C22_RunningTotal ==
    WaterfallServed =>
        /\ Len(Data) = Len(WaterfallRows)
        /\ \A k \in 1..Len(Data) :
              /\ Data[k].category = Frame.rows[WaterfallRows[k]][req.parameters.x_axis][1]
              /\ Data[k].value = Frame.rows[WaterfallRows[k]][req.parameters.y_axis][1]
              /\ Data[k].end = Data[k].start + Data[k].value
              /\ Data[k].cumulative = Data[k].end
              /\ Data[k].start = IF k = 1 THEN 0 ELSE Data[k - 1].end

\* a waterfall of two records in the order of the rows, west before east
C22_Witness ==
    /\ WaterfallServed
    /\ resp.status = "200"
    /\ Len(Data) = 2
    /\ Data[1].category = "west"
    /\ Data[2].category = "east"
    /\ Data[2].start = 1
    /\ Data[2].end = 2

(* ---------------------------------------------------------------------- *)
(* C23  stacked offsets                                                    *)
(* ---------------------------------------------------------------------- *)
\* a payload of stacked bars, or of stacked areas
StackedBarsServed ==
    /\ Served({"stacked_bar", "grouped_bar"})
    /\ req.parameters.x_axis # None
    /\ req.parameters.y_axis # None

StackedAreasServed ==
    /\ Served({"area", "stacked_area"})
    /\ req.parameters.stack_by # None

\* the series of record k of a stacked area, in the order of the columns
AreaSeries(k) ==
    SortedSeq({key[1] : key \in {q \in DOMAIN Data[k] : Len(q) = 2 /\ q[2] = "_value"}})

\* the sum of the _value fields of the record over the series
RECURSIVE ValueSum(_, _)
ValueSum(record, series) ==
    IF series = <<>> THEN QInt(0)
    ELSE QAdd(ValueSum(record, SubSeq(series, 1, Len(series) - 1)),
              record[<<series[Len(series)], "_value">>])

\* one stacked bar record: segments chained from 0, total at the end
Chained(record, series) ==
    /\ \A i \in 1..Len(series) :
          /\ record[<<series[i], "_start">>] =
                IF i = 1 THEN QInt(0) ELSE record[<<series[i - 1], "_end">>]
          /\ record[<<series[i], "_end">>] =
                QAdd(record[<<series[i], "_start">>], record[<<series[i], "_value">>])
    /\ record[<<"total">>] =
          IF series = <<>> THEN QInt(0) ELSE record[<<series[Len(series)], "_end">>]
    /\ record[<<"total">>] = ValueSum(record, series)

\* C23: in every stacked bar record the first series starts at 0, each
\* series ends at its start plus its value, each later series starts where
\* the one before ends, and total is the end of the last series and the sum
\* of the values; in every stacked area record the cumulative of the last
\* series is the sum of the values.
C23_StackedOffsets ==
    /\ StackedBarsServed =>
          \A k \in 1..Len(Data) : Chained(Data[k], Metadata.stack_categories)
    /\ StackedAreasServed =>
          \A k \in 1..Len(Data) :
              AreaSeries(k) # <<>> =>
                  Data[k][<<AreaSeries(k)[Len(AreaSeries(k))], "_cumulative">>]
                      = ValueSum(Data[k], AreaSeries(k))

\* a stacked bar of two series, the second starting where the first ends
C23_Witness ==
    /\ StackedBarsServed
    /\ resp.status = "200"
    /\ Len(Data) = 1
    /\ Metadata.stack_categories = <<"a", "b">>
    /\ Data[1][<<"a", "_value">>] = QInt(1)
    /\ Data[1][<<"b", "_start">>] = QInt(1)
    /\ Data[1][<<"total">>] = QInt(2)

(* ---------------------------------------------------------------------- *)
(* C24  shares of the children of a treemap                                *)
(* ---------------------------------------------------------------------- *)
\* a treemap or sunburst payload with children: color_by names a column of
\* the file
HierarchyServed ==
    /\ Served({"treemap", "sunburst"})
    /\ req.parameters.color_by # None
    /\ HasColumn(Frame, req.parameters.color_by)

ChildValues(k) == [i \in 1..Len(Data[k].children) |-> Data[k].children[i].value]

ChildShares(k) == [i \in 1..Len(Data[k].children) |-> Data[k].children[i].percentage]

\* value / total * 100, and 0 for a total of 0
Share(value, total) ==
    IF total = FloatZero THEN <<FloatZero>>
    ELSE IF value = NA THEN NA
    ELSE <<smul(sdiv(value[1], total), FromInt(100))>>

\* C24: in a hierarchical treemap or sunburst payload the value of a parent
\* is the sum of the values of its children, the percentage of a child is
\* its value over the value of the parent times 100, the percentages of the
\* children of a parent sum to 100 whenever the value of the parent is not
\* zero, negative included, and are zero when it is zero.
C24_ChildShares ==
    HierarchyServed =>
        \A k \in 1..Len(Data) :
            /\ Data[k].value = FloatSum(ChildValues(k))
            /\ \A i \in 1..Len(Data[k].children) :
                  Data[k].children[i].percentage
                      = Share(Data[k].children[i].value, Data[k].value)
            /\ Data[k].value # FloatZero => FloatSum(ChildShares(k)) = FromInt(100)

\* a parent worth -2 whose two children, worth -1 each, both carry 0 percent
C24_Witness ==
    /\ HierarchyServed
    /\ resp.status = "200"
    /\ Len(Data) = 1
    /\ Data[1].value = FromSigned(-2)
    /\ Len(Data[1].children) = 2
    /\ ChildValues(1) = <<<<FromSigned(-1)>>, <<FromSigned(-1)>>>>
    /\ ChildShares(1) = <<<<FloatZero>>, <<FloatZero>>>>

(* ---------------------------------------------------------------------- *)
(* C25  axes of the radar                                                  *)
(* ---------------------------------------------------------------------- *)
\* a radar request on a stored file
RadarHandled ==
    /\ Handled
    /\ req.chart_type = "radar"
    /\ req.file_id \in DOMAIN file_storage

\* the numeric columns of the file other than x_axis
AxisCandidates ==
    SelectSeq(select_numbers(Frame), LAMBDA c : c # req.parameters.x_axis)

\* C25: a radar payload has at most 8 axes whatever the limit, and at most
\* limit axes for a limit below 8; x_axis is none of them; every series has
\* one value per axis, in axis order; and a request with fewer than 3
\* numeric columns beside x_axis fails.
C25_AxesBounded ==
    /\ Served({"radar"}) =>
          /\ Len(Metadata.axes) <= MaxAxes
          /\ (req.parameters.limit # NA /\ req.parameters.limit[1] \in 1..MaxAxes) =>
                Len(Metadata.axes) <= req.parameters.limit[1]
          /\ req.parameters.x_axis \notin Range(Metadata.axes)
          /\ \A k \in 1..Len(Data) :
                /\ Len(Data[k].values) = Len(Metadata.axes)
                /\ \A i \in 1..Len(Metadata.axes) :
                      Data[k].values[i].axis = Metadata.axes[i]
    /\ (RadarHandled /\ Len(AxisCandidates) < 3) => resp.call.raised # ""

\* a radar of nine axes, for a limit of 9 on a file of nine measures
C25_Witness ==
    /\ Served({"radar"})
    /\ resp.status = "200"
    /\ req.parameters.limit = <<9>>
    /\ Len(Metadata.axes) = 9
    /\ Len(Data) = 1
    /\ Len(Data[1].values) = 9

(* ---------------------------------------------------------------------- *)
(* C26  reducers of the radar                                              *)
(* ---------------------------------------------------------------------- *)
\* the rows of the file that belong to series k of the payload
SeriesRows(k) ==
    IF Metadata.group_column # None /\ HasColumn(Frame, Metadata.group_column)
    THEN SelectSeq([j \in RowSet |-> j],
                   LAMBDA j : Frame.rows[j][Metadata.group_column] = <<Data[k].group>>)
    ELSE [j \in RowSet |-> j]

\* the reducer named by aggregation applied to whole numbers, 0 for NaN
Configured(aggregation, col, cells) ==
    IF Values(cells) = <<>> THEN QInt(0)
    ELSE CASE aggregation = "max" -> QInt(MaxOf(Values(cells)))
           [] OTHER -> SeriesReduce(aggregation, col, cells)[1]

\* C26: every axis value of every series of a radar payload is the
\* reducer named by aggregation applied to the rows of the group, and
\* metadata.aggregation names the reducer that was applied.
C26_ConfiguredReducer ==
    (Served({"radar"}) /\ req.parameters.aggregation \in {"sum", "mean", "median", "max"}
        /\ Frame.columns = SurveyColumns) =>
        /\ Metadata.aggregation = req.parameters.aggregation
        /\ \A k \in 1..Len(Data) : \A i \in 1..Len(Metadata.axes) :
              Data[k].values[i].value =
                  Configured(req.parameters.aggregation, Metadata.axes[i],
                             [j \in 1..Len(SeriesRows(k)) |->
                                 Frame.rows[SeriesRows(k)[j]][Metadata.axes[i]]])

\* a radar under max whose m1, over the values 1 and 3, is their mean 2
C26_Witness ==
    /\ Served({"radar"})
    /\ resp.status = "200"
    /\ req.parameters.aggregation = "max"
    /\ Metadata.aggregation = "max"
    /\ Frame.columns = SurveyColumns
    /\ Len(Data) = 1
    /\ Len(Frame.rows) = 2
    /\ Frame.rows[1]["m1"] = <<1>>
    /\ Frame.rows[2]["m1"] = <<3>>
    /\ Data[1].values[1] = [axis |-> "m1", value |-> QInt(2)]

(* ---------------------------------------------------------------------- *)
(* C27  the size of a bubble is that of its own row                        *)
(* ---------------------------------------------------------------------- *)
\* a bubble request with its three fields naming columns of a stored file
BubbleHandled ==
    /\ Handled
    /\ req.chart_type = "bubble"
    /\ req.file_id \in DOMAIN file_storage
    /\ ~bubble_required_missing(req.parameters)
    /\ AllColumns(Frame, <<req.parameters.x_axis, req.parameters.y_axis,
                           req.parameters.size_by>>)

\* the sizes of the retained rows, as float64
RetainedSizes ==
    [k \in 1..Len(Retained) |->
        float64(req.parameters.size_by, Frame.rows[Retained[k]][req.parameters.size_by][1])]

\* C27: every record of a bubble payload carries the size computed from its
\* own original_size over the retained rows, and no bubble request, rows
\* dropped for a null included, reads a size out of range.
C27_OwnSize ==
    /\ (BubbleHandled /\ resp.call.raised = "") =>
          \A k \in 1..Len(Data) :
              Data[k].size =
                  IF ~fle(fmax(RetainedSizes), fmin(RetainedSizes))
                  THEN Normalized(Data[k].original_size,
                                  fmin(RetainedSizes), fmax(RetainedSizes))
                  ELSE FromInt(ConstantSize)
    /\ BubbleHandled => "IndexError" \notin Range(resp.detail)

\* a file whose first row has no y and whose second row is complete: the
\* lookup of the size of the second row is out of range
C27_Witness ==
    /\ BubbleHandled
    /\ Len(Frame.rows) = 2
    /\ Retained = <<2>>
    /\ resp.status = "400"
    /\ "IndexError" \in Range(resp.detail)

(* ---------------------------------------------------------------------- *)
(* C28  a cached analysis is returned as stored and is kept                *)
(* ---------------------------------------------------------------------- *)
\* an analysis request was handled
Analyzed == req.via = "analyze"

\* C28: once the analysis cache holds a suggestion list for a file_id, every
\* later analysis of that file_id returns exactly that list without a call
\* of the AI client, and no step changes or removes the entry.
C28_CachedAnalysisKept ==
    [][\A key \in DOMAIN analysis_cache :
          /\ key \in DOMAIN analysis_cache'
          /\ analysis_cache'[key] = analysis_cache[key]
          /\ (req = NoRequest /\ req'.via = "analyze" /\ cache_key(req'.file_id) = key)
                => /\ resp'.status = "200"
                   /\ resp'.body.suggestions = analysis_cache[key]
                   /\ resp'.call.ai_calls = 0]_vars

\* an analysis answered from the cache with the two suggestions stored
\* earlier, while the AI client would now have returned something else
C28_Witness ==
    /\ Analyzed
    /\ resp.status = "200"
    /\ resp.call.ai_calls = 0
    /\ resp.body.suggestions = <<"s1", "s2">>
    /\ analysis_cache[cache_key(req.file_id)] = <<"s1", "s2">>
    /\ resp.call.completion.content = <<<<"[", "s1", "]">>>>

(* ---------------------------------------------------------------------- *)
(* C29  a failed analysis is not cached                                    *)
(* ---------------------------------------------------------------------- *)
\* the text holds a JSON array that json.loads accepts
Parsable(content) ==
    /\ content # NA
    /\ find(content[1], "[") # -1
    /\ rfind(content[1], "]") # -1
    /\ json_loadable(Substring(content[1], find(content[1], "["),
                               rfind(content[1], "]") + 1))

\* the AI client was called and raised, or its text holds no JSON array
AnalysisFailed ==
    /\ Analyzed
    /\ resp.call.ai_calls = 1
    /\ \/ resp.call.completion.raised
       \/ ~Parsable(resp.call.completion.content)

\* C29: when the AI call raises or its response cannot be parsed into a JSON
\* array of suggestions, analyze_data returns an empty list and the analysis
\* cache has no entry for the file_id afterwards.
C29_FailureNotCached ==
    AnalysisFailed =>
        /\ resp.body.suggestions = <<>>
        /\ ~cached(analysis_cache, cache_key(req.file_id))

\* the AI client answered in prose, without an array, and the empty list is
\* in the cache
C29_Witness ==
    /\ AnalysisFailed
    /\ resp.call.completion.content = <<<<"prose">>>>
    /\ cached(analysis_cache, cache_key(req.file_id))
    /\ analysis_cache[cache_key(req.file_id)] = <<>>

(* ---------------------------------------------------------------------- *)
(* C30  every ChartType is dispatched; the placeholders answer             *)
(* ---------------------------------------------------------------------- *)
\* a request for a member of ChartType against a stored file
MemberHandled ==
    /\ Handled
    /\ req.chart_type \in ChartType
    /\ req.file_id \in DOMAIN file_storage

\* a request one of the placeholder builders answers
PlaceholderHandled ==
    /\ MemberHandled
    /\ \/ req.chart_type \in {"gantt", "sankey", "chord"}
       \/ req.chart_type = "candlestick" /\ req.parameters.x_axis # None

\* C30: a request for any member of ChartType enters the builder of that
\* type and never the "not implemented" branch; candlestick with x_axis,
\* gantt, sankey and chord succeed with one data record, an error marker,
\* and metadata.status "not_implemented".
C30_EveryTypeDispatched ==
    /\ MemberHandled =>
          /\ resp.call.builder = req.chart_type
          /\ "implemented" \notin Range(resp.detail)
    /\ PlaceholderHandled =>
          /\ resp.call.raised = ""
          /\ resp.status = "200"
          /\ Len(resp.body.data) = 1
          /\ DOMAIN resp.body.data[1] = {"error"}
          /\ resp.body.metadata = [chart_type |-> req.chart_type,
                                   status |-> "not_implemented"]

\* a candlestick request with x_axis answered by the placeholder
C30_Witness ==
    /\ PlaceholderHandled
    /\ req.chart_type = "candlestick"
    /\ req.parameters.x_axis = "region"
    /\ resp.status = "200"
    /\ resp.body.data = <<[error |-> <<"Candlestick", "charts", "require", "OHLC",
                                       "data", "structure">>]>>
    /\ resp.body.metadata.status = "not_implemented"

====
